---- MODULE Spec2Model ----
(***************************************************************************)
(* Model of the progressive speech-to-text engine of clover-mark-plugin    *)
(* (src/src/stt-streaming.ts): AudioChunkBuffer and                        *)
(* SmartProgressiveStreamingHandler, and of its caption segmenter and      *)
(* WebVTT codec (src/src/webvtt.ts).                                       *)
(*                                                                         *)
(* Time is counted in ticks of 1/16 second, so that 0.25 s, 0.5 s and the  *)
(* sample periods of the modelled sample rates are whole numbers of ticks. *)
(* Audio is represented by its length in samples: the recognizer is an     *)
(* opaque collaborator whose result is chosen nondeterministically.        *)
(* Text is a sequence of one-character strings so that trim() and join()   *)
(* are computed, not assumed.                                              *)
(*                                                                         *)
(* The segmenter and the codec are pure functions. Their arguments are     *)
(* drawn from bounded sets by the initial states of SpecSegment and        *)
(* SpecCodec; numbers handed in by a caller are counted in microseconds,   *)
(* times the functions have rounded in milliseconds, and a document is a   *)
(* sequence of characters.                                                 *)
(*                                                                         *)
(* Three callers of the engine are modelled beside it: the recording panel *)
(* (src/unnamed/part_003), the recognizer loader (src/src/stt-parakeet.ts) *)
(* and the media canvas annotator with its runtime store                   *)
(* (src/src/media-annotator.ts, src/unnamed/part_001). Each awaited call   *)
(* is a step of its own, so that what runs while it is pending is visible. *)
(***************************************************************************)
EXTENDS Integers, Sequences, FiniteSets, TLC

\* ------------------------------------------------------------------------
\* Units and bounds
\* ------------------------------------------------------------------------

\* ticks per second (a power of two: every sample period below is whole)
TicksPerSecond == 4 * 4

\* most annotations of a canvas, and most ids generated for them
MaxAnnotations == 2

\* most loads of the recognizer that are started
MaxLoads == 3

\* longest recording of the panel, in quarter seconds
MaxRecorded == 5

\* longest audio buffer, in ticks
MaxAudioTicks == 16

Max(a, b) == IF a >= b THEN a ELSE b

Min(a, b) == IF a <= b THEN a ELSE b

\* ------------------------------------------------------------------------
\* Text: String.prototype.trim, Array.prototype.join
\* ------------------------------------------------------------------------

SP == " "

\* the byte order mark U+FEFF, one character
BOM == "U+FEFF"

\* white space as trim() and \s see it
IsSpace(c) == c \in {SP, "\t", "\n", "\r", BOM}

RECURSIVE TrimStart(_)
TrimStart(s) ==
  IF s = <<>> THEN <<>>
  ELSE IF IsSpace(Head(s)) THEN TrimStart(Tail(s)) ELSE s

RECURSIVE TrimEnd(_)
TrimEnd(s) ==
  IF s = <<>> THEN <<>>
  ELSE IF IsSpace(s[Len(s)]) THEN TrimEnd(SubSeq(s, 1, Len(s) - 1)) ELSE s

Trim(s) == TrimEnd(TrimStart(s))

RECURSIVE Join(_)
Join(parts) ==
  IF parts = <<>> THEN <<>>
  ELSE IF Len(parts) = 1 THEN parts[1]
  ELSE parts[1] \o <<SP>> \o Join(Tail(parts))

IsPrefix(s, t) == Len(s) <= Len(t) /\ SubSeq(t, 1, Len(s)) = s

\* ------------------------------------------------------------------------
\* Recognizer results (ParakeetTranscriptionResult), times relative to the
\* start of the window that was sent
\* ------------------------------------------------------------------------

Word(t, s, e) == [text |-> t, start_time |-> s, end_time |-> e]

WordA == Word(<<"a">>, 1, 3)     \* ends before the cutoff of a full window

WordB == Word(<<"b">>, 0, 0)     \* timestamps that do not advance

WordD == Word(<<"d">>, 5, 7)     \* near the end of the window

WordLists ==
  { <<>>, <<WordA>>, <<WordB>>, <<WordD>>,
    <<Word(<<SP>>, -2, -1)>>,    \* blank text, negative timestamps
    <<WordA, WordD>>,            \* a lockable word, then a provisional one
    <<WordA, WordB>> }           \* the last lockable word is not the latest

WordTexts(ws) == [i \in 1..Len(ws) |-> ws[i].text]

Results ==
  {[text |-> <<SP>> \o Join(WordTexts(ws)), words |-> ws] : ws \in WordLists}
    \cup {[text |-> <<"z">>, words |-> <<>>]}

\* ------------------------------------------------------------------------
\* Configuration (StreamingOptions); config.sampleRate in samples per second, the
\* three durations in ticks
\* ------------------------------------------------------------------------

Configs ==
  { [sampleRate |-> 8, maxWindowSeconds |-> 8, sentenceBufferSeconds |-> 4,
     emissionIntervalSeconds |-> 4],
    [sampleRate |-> 2, maxWindowSeconds |-> 8, sentenceBufferSeconds |-> 4,
     emissionIntervalSeconds |-> 8] }

VARIABLES
  config,                 \* the handler's readonly options
  audioBuffer,            \* AudioChunkBuffer.audioBuffer (length in samples)
  fixedSentences, fixedWords, fixedEndTime, lastTranscribedLength,
  pc,                     \* where the running engine call is suspended
  caller,                 \* who awaits the running transcribeIncremental
  audio,                  \* the audio argument of the running call (samples)
  window,                 \* the window handed to the recognizer
  activeWindowBaseTime,   \* transcribeIncremental's local
  processedUpTo, windowStart, windowEnd,   \* transcribeBatch's locals
  currentTime, fullAudio, \* transcribeProgressive's local and argument
  last,                   \* the most recent partial returned or yielded
  emitted,                \* partials yielded by the running generator
  finals,                 \* ... of which isFinal
  calls,                  \* recognizer invocations of the running call
  ret,                    \* outcome of the most recent completed call
  pre,                    \* locked state when the running call began
  lockedAudioEnd,         \* end of the audio whose text is locked
  forced,                 \* the last batch iteration forced its progress
  latest,                 \* transcribeBatchLatest's local, then what it returns
  heard,                  \* the most recent recognizer result
  reused,                 \* the session began on an instance that held state
  inputWords, options,    \* the arguments of segmentWordsIntoWebVttCues
  cues,                   \* ... and what it returned
  input,                  \* the argument of serializeWebVttCues
  rawValue,               \* the argument of parseWebVttCues
  source,                 \* the header and blocks rawValue was written from
  parsed,                 \* what parseWebVttCues returned
  step,                   \* which of the caption functions have been applied
  stt,                    \* the recording panel's refs and its pending calls
  loader,                 \* the module state of the recognizer loader
  media                   \* the annotator's store and its published runtime state

\* the caption functions' arguments and results
captions == <<inputWords, options, cues, input, rawValue, source, parsed, step>>

\* the engine's state
engine ==
  <<config, audioBuffer, fixedSentences, fixedWords, fixedEndTime,
    lastTranscribedLength, pc, caller, audio, window, activeWindowBaseTime,
    processedUpTo, windowStart, windowEnd, currentTime, fullAudio, last, emitted,
    finals, calls, ret, pre, lockedAudioEnd, forced, latest, heard, reused>>

vars == <<engine, captions, stt, loader, media>>

\* ticks per sample
SamplePeriod == TicksPerSecond \div config.sampleRate

\* audio.length / config.sampleRate
Duration(samples) == samples * SamplePeriod

\* Math.floor(seconds * config.sampleRate)
ToSamples(ticks) == ticks \div SamplePeriod

\* first index taken by Float32Array.prototype.slice(start) on len samples
SliceIndex(start, len) ==
  IF start < 0 THEN Max(len + start, 0) ELSE Min(start, len)

AudioLengths == {n \in 0..MaxAudioTicks : Duration(n) <= MaxAudioTicks}

\* ------------------------------------------------------------------------
\* Values
\* ------------------------------------------------------------------------

Partial(ft, at, ts, fin, ws) ==
  [fixedText |-> ft, activeText |-> at, timestamp |-> ts, isFinal |-> fin,
   words |-> ws]

NoPartial == Partial(<<>>, <<>>, -1, FALSE, <<>>)

\* 0 <= start_time <= end_time, listed in non-decreasing start_time
WellFormed(ws) ==
  \A i \in 1..Len(ws) :
    /\ 0 <= ws[i].start_time
    /\ ws[i].start_time <= ws[i].end_time
    /\ i > 1 => ws[i - 1].start_time <= ws[i].start_time

\* nothing heard yet in this session
NoResult == [text |-> <<>>, words |-> <<>>, none |-> TRUE, trusted |-> TRUE]

\* a recognizer result as the session remembers it: trusted while every
\* result of the session so far was well formed
Heard(result) ==
  [text |-> result.text, words |-> result.words,
   trusted |-> heard.trusted /\ WellFormed(result.words)]

Outcome(op, a, n, err, txt) ==
  [op |-> op, audio |-> a, calls |-> n, error |-> err, text |-> txt]

Locked == [sentences |-> fixedSentences, words |-> fixedWords, endTime |-> fixedEndTime]

\* the instance is not as its constructor left it
HeldState ==
  fixedSentences # <<>> \/ fixedWords # <<>> \/ fixedEndTime # 0 \/ lastTranscribedLength # 0

\* words left at their time within the window
KeepWords(ws, base) == ws

\* words shifted to absolute session time
ShiftWords(ws, base) ==
  [i \in 1..Len(ws) |->
     [ws[i] EXCEPT !.start_time = base + @, !.end_time = base + @]]

\* a filter that keeps every word
EveryWord(ws, cutoff) == ws

\* result.words.filter((word) => word.end_time < cutoff)
LockableWords(ws, cutoff) == SelectSeq(ws, LAMBDA w : w.end_time < cutoff)

\* words.map((word) => word.text).join(" ").trim()
WordsText(ws) == Trim(Join(WordTexts(ws)))

\* a push that puts the newest chunk first
PushTextFront(sentences, chunk) ==
  IF chunk # <<>> THEN <<chunk>> \o sentences ELSE sentences

\* if (chunk) { this.fixedSentences.push(chunk) }
PushText(sentences, chunk) ==
  IF chunk # <<>> THEN Append(sentences, chunk) ELSE sentences

\* an end time taken from the window instead of added to the session's
AdvanceEndTimeTo(endTime, lockableWords) ==
  lockableWords[Len(lockableWords)].end_time

\* this.fixedEndTime += lockableWords[lockableWords.length - 1].end_time
AdvanceEndTime(endTime, lockableWords) ==
  endTime + lockableWords[Len(lockableWords)].end_time

\* [fixedText, activeText].filter((part) => part.trim().length > 0).join(" ").trim()
FinalizeText(p) ==
  Trim(Join(SelectSeq(<<p.fixedText, p.activeText>>, LAMBDA part : Len(Trim(part)) > 0)))

\* the handler and the buffer after construction
HandlerInit ==
  /\ config \in Configs
  /\ audioBuffer = 0
  /\ fixedSentences = <<>>
  /\ fixedWords = <<>>
  /\ fixedEndTime = 0
  /\ lastTranscribedLength = 0
  /\ pc = "idle"
  /\ caller = "api"
  /\ audio = 0
  /\ window = [start |-> 0, end |-> 0, added |-> 0]
  /\ activeWindowBaseTime = 0
  /\ processedUpTo = 0
  /\ windowStart = 0
  /\ windowEnd = 0
  /\ currentTime = 0
  /\ fullAudio = 0
  /\ last = NoPartial
  /\ emitted = 0
  /\ finals = 0
  /\ calls = 0
  /\ ret = Outcome("none", 0, 0, FALSE, <<>>)
  /\ pre = [sentences |-> <<>>, words |-> <<>>, endTime |-> 0]
  /\ lockedAudioEnd = 0
  /\ forced = FALSE
  /\ latest = NoPartial
  /\ heard = NoResult
  /\ reused = FALSE

\* no caption function has been called
NoCaptions ==
  /\ inputWords = <<>>
  /\ options = <<>>
  /\ cues = <<>>
  /\ input = <<>>
  /\ rawValue = <<>>
  /\ source = [header |-> [chars |-> <<>>, valid |-> FALSE], blocks |-> <<>>,
               newline |-> <<>>]
  /\ parsed = <<>>
  /\ step = "ready"

\* the call sites of loadParakeetTranscriber: handleLoadSttModel run by the
\* automatic load, by the load button and by handleStartSttRecording
Callers == {"auto", "button", "start"}

\* the panels are idle: before a recording is started every ref of the
\* recording panel is null, nothing has asked for the recognizer, and the
\* annotator was created for a canvas with no stored annotations
NoApp ==
  /\ stt = [interval |-> FALSE, inFlight |-> FALSE, buffer |-> FALSE, handler |-> FALSE,
            recorder |-> FALSE, mode |-> "realtime", recorded |-> 0, tickCalls |-> <<>>,
            finalCalls |-> <<>>, stopping |-> "no", finalize |-> FALSE,
            sessionDuration |-> 0]
  /\ loader = [sharedTranscriber |-> 0, sharedTranscriberPromise |-> 0, loads |-> <<>>,
               callers |-> [c \in Callers |-> [at |-> "idle", load |-> 0]]]
  /\ media = [annotations |-> <<>>, selectedAnnotationId |-> [null |-> TRUE, id |-> <<>>],
              stored |-> <<>>, built |-> 0,
              state |-> [localAnnotationCount |-> 0, localCloverMarks |-> <<>>,
                         selectedLocalScholiumId |-> [null |-> TRUE, id |-> <<>>]]]

Init == HandlerInit /\ NoCaptions /\ NoApp

batchLocals == <<processedUpTo, windowStart, windowEnd, forced, latest>>


lockedState == <<fixedSentences, fixedWords, fixedEndTime, lockedAudioEnd>>

\* ------------------------------------------------------------------------
\* AudioChunkBuffer
\* ------------------------------------------------------------------------

\* one recorder callback: a quarter second of audio, at least one sample
ChunkSamples == Max(1, config.sampleRate \div 4)

appendChunk ==
  /\ pc = "idle"
  /\ audioBuffer + ChunkSamples \in AudioLengths
  /\ audioBuffer' = audioBuffer + ChunkSamples
  /\ UNCHANGED <<captions, stt, loader, media>>
  /\ UNCHANGED <<config, reused, lockedState, lastTranscribedLength, pc, caller, audio,
                 window, activeWindowBaseTime, batchLocals, currentTime, fullAudio,
                 last, emitted, finals, calls, ret, pre, heard>>

\* ------------------------------------------------------------------------
\* SmartProgressiveStreamingHandler
\* ------------------------------------------------------------------------

\* locked state left over from an earlier session
StaleLocked == [sentences |-> <<<<"a">>>>, words |-> <<>>, endTime |-> 1]

NoLocked == [sentences |-> <<>>, words |-> <<>>, endTime |-> 0]

\* reset(); what was observed of the session it ends is forgotten with it
reset ==
  /\ pc = "idle"
  /\ fixedSentences' = <<>>
  /\ fixedWords' = <<>>
  /\ fixedEndTime' = 0
  /\ lastTranscribedLength' = 0
  /\ lockedAudioEnd' = 0
  /\ audio' = 0
  /\ caller' = "api"
  /\ window' = [start |-> 0, end |-> 0, added |-> 0]
  /\ activeWindowBaseTime' = 0
  /\ last' = NoPartial
  /\ emitted' = 0
  /\ finals' = 0
  /\ calls' = 0
  /\ pre' = NoLocked
  /\ ret' = Outcome("reset", 0, 0, FALSE, <<>>)
  /\ processedUpTo' = 0
  /\ windowStart' = 0
  /\ windowEnd' = 0
  /\ forced' = FALSE
  /\ latest' = NoPartial
  /\ currentTime' = 0
  /\ fullAudio' = 0
  /\ heard' = NoResult
  /\ reused' = HeldState
  /\ UNCHANGED <<captions, stt, loader, media>>
  /\ UNCHANGED <<config, audioBuffer, pc>>

\* the partial of a transcribeIncremental call reaches whoever awaits it;
\* em and fin count what the running generator has yielded so far
Deliver(p, who, a, n, em, fin) ==
  /\ last' = IF who = "progressive_final" THEN [p EXCEPT !.isFinal = TRUE] ELSE p
  /\ CASE who = "api" ->
            /\ pc' = "idle"
            /\ ret' = Outcome("transcribeIncremental", a, n, FALSE, <<>>)
            /\ emitted' = em
            /\ finals' = fin
       [] who = "finalize" ->
            /\ pc' = "idle"
            /\ ret' = Outcome("finalize", a, n, FALSE, FinalizeText(p))
            /\ emitted' = em
            /\ finals' = fin
       [] who = "progressive_loop" ->
            /\ pc' = "progressive_pause"
            /\ emitted' = em + 1
            /\ finals' = fin
            /\ ret' = Outcome("running", a, n, FALSE, <<>>)
       [] who = "progressive_final" ->
            /\ pc' = "idle"
            /\ emitted' = em + 1
            /\ finals' = fin + 1
            /\ ret' = Outcome("transcribeProgressive", a, n, FALSE, <<>>)

\* a rejected recognizer call rejects the call that awaits it
Throw(who, a, n) ==
  /\ pc' = "idle"
  /\ ret' = Outcome(IF who = "api" THEN "transcribeIncremental"
                    ELSE IF who = "finalize" THEN "finalize"
                    ELSE "transcribeProgressive", a, n, TRUE, <<>>)
  /\ UNCHANGED <<last, emitted, finals>>

\* transcribeIncremental(a) up to its first await, entered with the locked
\* state, lastTranscribedLength and generator counts given
IncrementalEnter(a, who, locked, lastLength, em, fin) ==
  /\ audio' = a
  /\ caller' = who
  /\ pre' = locked
  /\ IF 2 * a < config.sampleRate \/ a = lastLength
       THEN /\ Deliver(Partial(Join(locked.sentences), <<>>, Duration(a), FALSE,
                               locked.words), who, a, 0, em, fin)
            /\ calls' = 0
            /\ lastTranscribedLength' = lastLength
            /\ UNCHANGED <<window, activeWindowBaseTime>>
       ELSE /\ lastTranscribedLength' = a
            /\ activeWindowBaseTime' = locked.endTime
            /\ window' = [start |-> SliceIndex(ToSamples(locked.endTime), a),
                          end |-> a, added |-> a - audio]
            /\ calls' = 1
            /\ pc' = "incremental_first"
            /\ emitted' = em
            /\ finals' = fin
            /\ IF who \in {"api", "finalize"}
                 THEN UNCHANGED <<last, ret>>
                 ELSE /\ ret' = Outcome("running", a, 0, FALSE, <<>>)
                      /\ last' = IF em = 0 THEN NoPartial ELSE last

transcribeIncremental ==
  /\ pc = "idle"
  /\ IncrementalEnter(audioBuffer, "api", Locked, lastTranscribedLength, emitted, finals)
  /\ UNCHANGED <<captions, stt, loader, media>>
  /\ UNCHANGED <<config, reused, audioBuffer, lockedState, batchLocals, currentTime, fullAudio,
                 heard>>

finalize ==
  /\ pc = "idle"
  /\ IncrementalEnter(audioBuffer, "finalize", Locked, lastTranscribedLength, emitted, finals)
  /\ UNCHANGED <<captions, stt, loader, media>>
  /\ UNCHANGED <<config, reused, audioBuffer, lockedState, batchLocals, currentTime, fullAudio,
                 heard>>

\* the first recognizer call of transcribeIncremental resolves with result
IncrementalFirst(result) ==
  LET windowDuration == Duration(window.end - window.start)
      cutoff == windowDuration - config.sentenceBufferSeconds
      lockableWords == LockableWords(result.words, cutoff)
      newEndTime == AdvanceEndTime(fixedEndTime, lockableWords)
  IN
  /\ pc = "incremental_first"
  /\ IF windowDuration >= config.maxWindowSeconds /\ Len(result.words) > 0
        /\ Len(lockableWords) > 0
       THEN /\ fixedSentences' = PushText(fixedSentences, WordsText(lockableWords))
            /\ fixedWords' = fixedWords \o ShiftWords(lockableWords, fixedEndTime)
            /\ fixedEndTime' = newEndTime
            /\ lockedAudioEnd' = newEndTime
            /\ window' = [start |-> SliceIndex(ToSamples(newEndTime), audio),
                          end |-> audio, added |-> window.added]
            /\ activeWindowBaseTime' = newEndTime
            /\ calls' = calls + 1
            /\ pc' = "incremental_second"
            /\ UNCHANGED <<last, emitted, finals, ret>>
       ELSE /\ Deliver(Partial(Trim(Join(fixedSentences)), Trim(result.text),
                               Duration(audio), FALSE,
                               fixedWords \o ShiftWords(result.words, activeWindowBaseTime)),
                       caller, audio, calls, emitted, finals)
            /\ UNCHANGED <<lockedState, window, activeWindowBaseTime, calls>>
  /\ heard' = Heard(result)
  /\ UNCHANGED <<captions, stt, loader, media>>
  /\ UNCHANGED <<config, reused, audioBuffer, lastTranscribedLength, caller, audio, pre,
                 batchLocals, currentTime, fullAudio>>

\* a re-run whose words are shifted by the base time of the first window
IncrementalSecondStale(result) ==
  /\ pc = "incremental_second"
  /\ Deliver(Partial(Trim(Join(fixedSentences)), Trim(result.text),
                     Duration(audio), FALSE,
                     fixedWords \o ShiftWords(result.words, pre.endTime)),
             caller, audio, calls, emitted, finals)
  /\ heard' = Heard(result)
  /\ UNCHANGED <<captions, stt, loader, media>>
  /\ UNCHANGED <<config, reused, audioBuffer, lockedState, lastTranscribedLength, caller,
                 audio, window, activeWindowBaseTime, calls, pre, batchLocals,
                 currentTime, fullAudio>>

\* the re-run on the remaining window resolves with result
IncrementalSecond(result) ==
  /\ pc = "incremental_second"
  /\ Deliver(Partial(Trim(Join(fixedSentences)), Trim(result.text),
                     Duration(audio), FALSE,
                     fixedWords \o ShiftWords(result.words, activeWindowBaseTime)),
             caller, audio, calls, emitted, finals)
  /\ heard' = Heard(result)
  /\ UNCHANGED <<captions, stt, loader, media>>
  /\ UNCHANGED <<config, reused, audioBuffer, lockedState, lastTranscribedLength, caller,
                 audio, window, activeWindowBaseTime, calls, pre, batchLocals,
                 currentTime, fullAudio>>

\* a recognizer call of transcribeIncremental rejects
IncrementalReject ==
  /\ pc \in {"incremental_first", "incremental_second"}
  /\ Throw(caller, audio, calls)
  /\ UNCHANGED <<captions, stt, loader, media>>
  /\ UNCHANGED <<config, reused, audioBuffer, lockedState, lastTranscribedLength, caller,
                 audio, window, activeWindowBaseTime, calls, pre, batchLocals,
                 currentTime, fullAudio, heard>>

\* one turn of transcribeProgressive's loop, or the final call after it
ProgressiveStep(cur, a, locked, lastLength, em, fin) ==
  IF cur < Duration(a)
    THEN /\ currentTime' = cur + config.emissionIntervalSeconds
         /\ IncrementalEnter(Min(ToSamples(cur + config.emissionIntervalSeconds), a),
                             "progressive_loop", locked, lastLength, em, fin)
    ELSE /\ currentTime' = cur
         /\ IncrementalEnter(a, "progressive_final", locked, lastLength, em, fin)

\* transcribeProgressive(a) from its first next() to its first suspension
transcribeProgressive(a) ==
  /\ pc = "idle"
  /\ fixedSentences' = <<>>
  /\ fixedWords' = <<>>
  /\ fixedEndTime' = 0
  /\ lockedAudioEnd' = 0
  /\ fullAudio' = a
  /\ ProgressiveStep(0, a, NoLocked, 0, 0, 0)
  /\ processedUpTo' = 0
  /\ windowStart' = 0
  /\ windowEnd' = 0
  /\ forced' = FALSE
  /\ latest' = NoPartial
  /\ heard' = NoResult
  /\ reused' = HeldState
  /\ UNCHANGED <<captions, stt, loader, media>>
  /\ UNCHANGED <<config, audioBuffer>>

\* the pause between two emissions is over
ProgressiveResume ==
  /\ pc = "progressive_pause"
  /\ ProgressiveStep(currentTime, fullAudio, Locked, lastTranscribedLength,
                     emitted, finals)
  /\ UNCHANGED <<captions, stt, loader, media>>
  /\ UNCHANGED <<config, reused, audioBuffer, lockedState, fullAudio, batchLocals, heard>>

\* a drain that keeps the first partial it sees
DrainFirst(l, partial) == IF l = NoPartial THEN partial ELSE l

\* last = partial
Drain(l, partial) == partial

\* what transcribeBatchLatest returns once the generator is exhausted; the
\* partial it makes up has no words
LatestResult(l, a) ==
  IF l # NoPartial THEN l ELSE Partial(<<>>, <<>>, Duration(a), FALSE, <<>>)

\* the name under which a run started by who completes
BatchOp(who) == IF who = "latest" THEN "transcribeBatchLatest" ELSE "transcribeBatch"

\* the top of transcribeBatch's loop with the cursor at p, after n calls, in
\* a run consumed by who, whose drain holds l
BatchLoop(p, a, n, who, l) ==
  IF p < Duration(a)
    THEN /\ windowStart' = p
         /\ windowEnd' = Min(p + config.maxWindowSeconds, Duration(a))
         /\ window' = [start |-> ToSamples(p),
                       end |-> ToSamples(Min(p + config.maxWindowSeconds, Duration(a))),
                       added |-> 0]
         /\ calls' = n + 1
         /\ pc' = "batch_await"
         /\ ret' = Outcome("running", a, n, FALSE, <<>>)
         /\ latest' = l
    ELSE /\ pc' = "idle"
         /\ calls' = n
         /\ ret' = Outcome(BatchOp(who), a, n, FALSE, <<>>)
         /\ latest' = IF who = "latest" THEN LatestResult(l, a) ELSE l
         /\ UNCHANGED <<windowStart, windowEnd, window>>

\* a run of transcribeBatch(a) consumed by who, from its first next() to its
\* first suspension
BatchStart(a, who) ==
  /\ pc = "idle"
  /\ fixedSentences' = <<>>
  /\ fixedWords' = <<>>
  /\ fixedEndTime' = 0
  /\ lastTranscribedLength' = 0
  /\ lockedAudioEnd' = 0
  /\ audio' = a
  /\ caller' = who
  /\ processedUpTo' = 0
  /\ forced' = FALSE
  /\ last' = NoPartial
  /\ emitted' = 0
  /\ finals' = 0
  /\ pre' = NoLocked
  /\ activeWindowBaseTime' = 0
  /\ BatchLoop(0, a, 0, who, NoPartial)
  /\ currentTime' = 0
  /\ fullAudio' = 0
  /\ heard' = NoResult
  /\ reused' = HeldState
  /\ UNCHANGED <<captions, stt, loader, media>>
  /\ UNCHANGED <<config, audioBuffer>>

\* for await (const partial of handler.transcribeBatch(a))
transcribeBatch(a) == BatchStart(a, "api")

\* transcribeBatchLatest(a) up to the first recognizer call of the run it drains
transcribeBatchLatest(a) == BatchStart(a, "latest")

\* a cursor that trusts the locking rule
ProgressUnguarded(next) == next

\* where the cursor goes when the locking rule proposes next
Progress(next) ==
  LET minimumProgressSeconds == Max(TicksPerSecond \div 4, SamplePeriod)
  IN IF next <= windowStart
       THEN Min(windowEnd, windowStart + minimumProgressSeconds)
       ELSE next

\* the recognizer call of one batch window resolves with result
BatchResult(result) ==
  LET windowDuration == windowEnd - windowStart
      cutoff == windowDuration - config.sentenceBufferSeconds
      lockableWords == LockableWords(result.words, cutoff)
      activeWords == SelectSeq(result.words, LAMBDA w : w.end_time >= cutoff)
      lockedTo == windowStart + lockableWords[Len(lockableWords)].end_time
      halfway == windowStart + windowDuration \div 2
      branch == IF windowDuration >= config.maxWindowSeconds
                  THEN IF Len(lockableWords) > 0 THEN "lock" ELSE "half"
                  ELSE "final"
      sentences == CASE branch = "lock" -> PushText(fixedSentences, WordsText(lockableWords))
                     [] branch = "half" -> PushText(fixedSentences, Trim(result.text))
                     [] branch = "final" -> PushText(fixedSentences, Trim(result.text))
      words == CASE branch = "lock" -> fixedWords \o ShiftWords(lockableWords, windowStart)
                 [] branch = "half" -> fixedWords
                 [] branch = "final" -> fixedWords \o ShiftWords(result.words, windowStart)
      next == CASE branch = "lock" -> Progress(lockedTo)
                [] branch = "half" -> Progress(halfway)
                [] branch = "final" -> windowEnd
      partial == CASE branch = "lock" ->
                        Partial(Trim(Join(sentences)), WordsText(activeWords), windowEnd,
                                FALSE, words \o ShiftWords(activeWords, windowStart))
                   [] branch = "half" ->
                        Partial(Trim(Join(sentences)), <<>>, windowEnd, FALSE,
                                words \o ShiftWords(result.words, windowStart))
                   [] branch = "final" ->
                        Partial(Trim(Join(sentences)), <<>>, windowEnd, TRUE, words)
  IN
  /\ pc = "batch_await"
  /\ fixedSentences' = sentences
  /\ fixedWords' = words
  /\ processedUpTo' = next
  /\ forced' = CASE branch = "lock" -> lockedTo <= windowStart
                 [] branch = "half" -> halfway <= windowStart
                 [] branch = "final" -> FALSE
  /\ lockedAudioEnd' =
       CASE branch = "lock" -> Max(lockedAudioEnd, lockedTo)
         [] branch = "half" -> IF sentences # fixedSentences THEN windowEnd
                               ELSE lockedAudioEnd
         [] branch = "final" -> windowEnd
  /\ last' = partial
  /\ emitted' = emitted + 1
  /\ finals' = IF partial.isFinal THEN finals + 1 ELSE finals
  /\ BatchLoop(next, audio, calls, caller,
               IF caller = "latest" THEN Drain(latest, partial) ELSE latest)
  /\ heard' = Heard(result)
  /\ UNCHANGED <<captions, stt, loader, media>>
  /\ UNCHANGED <<config, reused, audioBuffer, fixedEndTime, lastTranscribedLength, caller,
                 audio, activeWindowBaseTime, pre, currentTime, fullAudio>>

\* the recognizer call of one batch window rejects
BatchReject ==
  /\ pc = "batch_await"
  /\ pc' = "idle"
  /\ ret' = Outcome(BatchOp(caller), audio, calls, TRUE, <<>>)
  /\ UNCHANGED <<captions, stt, loader, media>>
  /\ UNCHANGED <<config, reused, audioBuffer, lockedState, lastTranscribedLength, caller,
                 audio, window, activeWindowBaseTime, calls, pre, last, emitted,
                 finals, batchLocals, currentTime, fullAudio, heard>>

\* ------------------------------------------------------------------------
\* Caption text (src/src/webvtt.ts): characters, regular expressions
\* ------------------------------------------------------------------------

UpperCase ==
  <<"A", "B", "C", "D", "E", "F", "G", "H", "I", "J", "K", "L", "M", "N", "O",
    "P", "Q", "R", "S", "T", "U", "V", "W", "X", "Y", "Z">>

LowerCase ==
  <<"a", "b", "c", "d", "e", "f", "g", "h", "i", "j", "k", "l", "m", "n", "o",
    "p", "q", "r", "s", "t", "u", "v", "w", "x", "y", "z">>

\* the decimal digits; the digit of value d is DecimalDigits[d + 1]
DecimalDigits == <<"0", "1", "2", "3", "4", "5", "6", "7", "8", "9">>

Range(f) == {f[i] : i \in DOMAIN f}

\* [A-Z]

\* \d
IsDigit(c) == c \in Range(DecimalDigits)

\* String.prototype.toLowerCase
toLowerCase(s) ==
  [i \in 1..Len(s) |->
     IF (s[i] \in Range(UpperCase))
       THEN LowerCase[CHOOSE k \in DOMAIN UpperCase : UpperCase[k] = s[i]]
       ELSE s[i]]

\* s.slice(n)
Drop(s, n) == SubSeq(s, n + 1, Len(s))

\* s.startsWith(prefix)
StartsWith(s, prefix) == Len(s) >= Len(prefix) /\ SubSeq(s, 1, Len(prefix)) = prefix

\* s.includes(part)
Includes(s, part) ==
  \E i \in 0..(Len(s) - Len(part)) : SubSeq(s, i + 1, i + Len(part)) = part

\* s.replace(/pattern/gi, replacement) for a literal, lower-case pattern: the
\* matches are taken left to right and do not overlap
RECURSIVE ReplaceAll(_, _, _)
ReplaceAll(s, pattern, replacement) ==
  LET starts == {i \in 1..(Len(s) - Len(pattern) + 1) :
                   toLowerCase(SubSeq(s, i, i + Len(pattern) - 1)) = pattern}
  IN IF starts = {} THEN s
     ELSE LET at == CHOOSE i \in starts : \A k \in starts : i <= k
          IN SubSeq(s, 1, at - 1) \o replacement
               \o ReplaceAll(Drop(s, at + Len(pattern) - 1), pattern, replacement)

\* value.replace(/\r\n/g, "\n").replace(/\r/g, "\n")
normalizeLineEndings(value) ==
  ReplaceAll(ReplaceAll(value, <<"\r", "\n">>, <<"\n">>), <<"\r">>, <<"\n">>)

decodeBasicHtmlEntities(value) ==
  ReplaceAll(
    ReplaceAll(
      ReplaceAll(
        ReplaceAll(value, <<"&", "a", "m", "p", ";">>, <<"&">>),
        <<"&", "l", "t", ";">>, <<"<">>),
      <<"&", "g", "t", ";">>, <<">">>),
    <<"&", "n", "b", "s", "p", ";">>, <<SP>>)

\* s.replace(/<[^>]+>/g, " ")
RECURSIVE StripTags(_)
StripTags(s) ==
  IF s = <<>> THEN <<>>
  ELSE IF /\ Head(s) = "<"
          /\ Len(s) >= 3
          /\ s[2] # ">"
          /\ \E j \in 3..Len(s) : s[j] = ">"
    THEN LET close == CHOOSE j \in 3..Len(s) :
                        s[j] = ">" /\ \A k \in 3..(j - 1) : s[k] # ">"
         IN <<SP>> \o StripTags(Drop(s, close))
    ELSE <<Head(s)>> \o StripTags(Tail(s))

\* s.replace(/\s+/g, " ")
RECURSIVE CollapseSpaces(_)
CollapseSpaces(s) ==
  IF s = <<>> THEN <<>>
  ELSE IF IsSpace(Head(s)) THEN <<SP>> \o CollapseSpaces(TrimStart(s))
  ELSE <<Head(s)>> \o CollapseSpaces(Tail(s))

\* s.replace(/\s+([chars])/g, "$1")
RECURSIVE TightenBefore(_, _)
TightenBefore(s, chars) ==
  IF s = <<>> THEN <<>>
  ELSE IF IsSpace(Head(s))
    THEN LET rest == TrimStart(s)
         IN IF rest # <<>> /\ Head(rest) \in chars
              THEN <<Head(rest)>> \o TightenBefore(Tail(rest), chars)
              ELSE SubSeq(s, 1, Len(s) - Len(rest)) \o TightenBefore(rest, chars)
    ELSE <<Head(s)>> \o TightenBefore(Tail(s), chars)

\* s.replace(/\(\s+/g, "(")
RECURSIVE TightenAfterParen(_)
TightenAfterParen(s) ==
  IF s = <<>> THEN <<>>
  ELSE IF Head(s) = "(" THEN <<"(">> \o TightenAfterParen(TrimStart(Tail(s)))
  ELSE <<Head(s)>> \o TightenAfterParen(Tail(s))

normalizeCueText(value) ==
  Trim(TightenBefore(
         TightenAfterParen(
           TightenBefore(CollapseSpaces(StripTags(decodeBasicHtmlEntities(value))),
                         {",", ".", ";", "!", "?"})),
         {")"}))

\* s.replace(/["')\]]*$/, "")
RECURSIVE DropClosers(_)
DropClosers(s) ==
  IF s # <<>> /\ s[Len(s)] \in {"\"", "'", ")", "]"}
    THEN DropClosers(SubSeq(s, 1, Len(s) - 1))
    ELSE s

\* /[chars]["')\]]*$/.test(value.trim())
EndsWithOneOf(value, chars) ==
  LET body == DropClosers(Trim(value))
  IN body # <<>> /\ body[Len(body)] \in chars

endsWithSentencePunctuation(value) == EndsWithOneOf(value, {".", "!", "?"})

startsWithUppercase(value) ==
  LET trimmed == Trim(value)
  IN trimmed # <<>> /\ (Head(trimmed) \in Range(UpperCase))

\* s.split(/\s+/).filter((token) => token.length > 0)
RECURSIVE SplitOnSpaces(_)
SplitOnSpaces(s) ==
  LET rest == TrimStart(s)
  IN IF rest = <<>> THEN <<>>
     ELSE LET n == IF \E i \in 1..Len(rest) : IsSpace(rest[i])
                     THEN (CHOOSE i \in 1..Len(rest) :
                             IsSpace(rest[i]) /\ \A k \in 1..(i - 1) : ~IsSpace(rest[k])) - 1
                     ELSE Len(rest)
          IN <<SubSeq(rest, 1, n)>> \o SplitOnSpaces(Drop(rest, n))

\* value.toLowerCase().replace(/[^a-z0-9'-]+/g, " ").trim().split(/\s+/)...
splitCueWords(value) ==
  LET lower == toLowerCase(value)
      IsWordChar(c) == c \in Range(LowerCase) \/ IsDigit(c) \/ c \in {"'", "-"}
  IN SplitOnSpaces([i \in 1..Len(lower) |->
                      IF IsWordChar(lower[i]) THEN lower[i] ELSE SP])

CONNECTOR_WORDS ==
  { <<"a">>, <<"a", "n">>, <<"a", "n", "d">>, <<"a", "s">>, <<"a", "t">>,
    <<"b", "e">>, <<"b", "e", "e", "n">>, <<"b", "e", "i", "n", "g">>,
    <<"b", "u", "t">>, <<"b", "y">>, <<"f", "o", "r">>,
    <<"f", "r", "o", "m">>, <<"i", "f">>, <<"i", "n">>,
    <<"i", "n", "t", "o">>, <<"i", "s">>, <<"i", "t">>, <<"i", "t", "s">>,
    <<"o", "f">>, <<"o", "n">>, <<"o", "r">>, <<"o", "u", "r">>,
    <<"s", "o">>, <<"t", "h", "a", "t">>, <<"t", "h", "e">>,
    <<"t", "h", "e", "i", "r">>, <<"t", "h", "e", "n">>,
    <<"t", "h", "e", "s", "e">>, <<"t", "h", "i", "s">>,
    <<"t", "h", "o", "s", "e">>, <<"t", "o">>, <<"w", "a", "s">>,
    <<"w", "e", "r", "e">>, <<"w", "h", "i", "c", "h">>,
    <<"w", "i", "t", "h">> }

startsWithConnector(value) ==
  LET tokens == splitCueWords(value)
  IN tokens # <<>> /\ tokens[1] \in CONNECTOR_WORDS

endsWithConnector(value) ==
  LET tokens == splitCueWords(value)
  IN tokens # <<>> /\ tokens[Len(tokens)] \in CONNECTOR_WORDS

isDanglingCueText(value) ==
  LET tokens == splitCueWords(value)
  IN IF Len(tokens) = 0 THEN TRUE
     ELSE IF Len(tokens) = 1 THEN tokens[1] \in CONNECTOR_WORDS
     ELSE IF Len(tokens) <= 3 /\ \A i \in 1..Len(tokens) : tokens[i] \in CONNECTOR_WORDS
       THEN TRUE
     ELSE endsWithConnector(value)

\* normalizeCueText(words.map((word) => word.text).join(" "))
buildCueTextFromWords(ws) == normalizeCueText(Join(WordTexts(ws)))

\* ------------------------------------------------------------------------
\* Numbers and sorting (src/src/webvtt.ts)
\* ------------------------------------------------------------------------

\* a number handed in by a caller, in microseconds
Num(us) == [finite |-> TRUE, value |-> us]

\* NaN, Infinity, or a value that is not a number
NotANumber == [finite |-> FALSE, value |-> 0]

\* what a function returns for a value it drops
Null == [null |-> TRUE]

toFiniteNonNegativeNumber(value) == IF ~value.finite THEN 0 ELSE Max(0, value.value)

\* +x.toFixed(3): microseconds to the nearest millisecond
ToFixed3(us) == (us + 500) \div 1000

\* the comparator of both sorts is negative: left goes before right
Before(left, right) ==
  IF left.start_time # right.start_time
    THEN left.start_time < right.start_time
    ELSE left.end_time < right.end_time

RECURSIVE Insert(_, _)
Insert(sorted, x) ==
  IF sorted = <<>> THEN <<x>>
  ELSE IF Before(x, sorted[Len(sorted)])
    THEN Append(Insert(SubSeq(sorted, 1, Len(sorted) - 1), x), sorted[Len(sorted)])
    ELSE Append(sorted, x)

\* Array.prototype.sort with that comparator (stable)
RECURSIVE Sort(_)
Sort(s) ==
  IF s = <<>> THEN <<>>
  ELSE Insert(Sort(SubSeq(s, 1, Len(s) - 1)), s[Len(s)])

\* ------------------------------------------------------------------------
\* segmentWordsIntoWebVttCues; times in milliseconds
\* ------------------------------------------------------------------------

normalizeTimedWord(value) ==
  LET trimmed == Trim(value.text)
      start == toFiniteNonNegativeNumber(value.start_time)
      endCandidate == toFiniteNonNegativeNumber(value.end_time)
  IN IF trimmed = <<>> THEN Null
     ELSE Word(trimmed, ToFixed3(start), ToFixed3(Max(start, endCandidate)))

\* options.name ?? default
Option(opts, name, default) == IF name \in DOMAIN opts THEN opts[name] ELSE default

maxCueChars(opts) == Max(28, Option(opts, "maxCueChars", 56))

maxCueDurationSeconds(opts) == Max(2500, Option(opts, "maxCueDurationSeconds", 6500))

\* a hundred times hardMaxCueDurationSeconds
hardMaxCueDurationSeconds(opts) ==
  Max(100 * (maxCueDurationSeconds(opts) + 1500), 135 * maxCueDurationSeconds(opts))

minCueDurationSeconds(opts) == Max(900, Option(opts, "minCueDurationSeconds", 1400))

maxWordsPerCue(opts) == Max(3, Option(opts, "maxWordsPerCue", 16))

maxInterWordGapSeconds(opts) == Max(100, Option(opts, "maxInterWordGapSeconds", 1100))

\* Math.round(n * percent / 100)
RoundPercent(n, percent) == (n * percent + 50) \div 100

\* the loop body's decision to flush currentWords before it takes word
ShouldBreak(currentWords, word, opts) ==
  LET previous == currentWords[Len(currentWords)]
      cueStart == currentWords[1].start_time
      cueDuration == Max(0, previous.end_time - cueStart)
      interWordGap == Max(0, word.start_time - previous.end_time)
      nextDuration == Max(0, word.end_time - cueStart)
      nextText == buildCueTextFromWords(Append(currentWords, word))
      currentText == buildCueTextFromWords(currentWords)
      currentEndsSentence == endsWithSentencePunctuation(previous.text)
      currentEndsSoft == EndsWithOneOf(previous.text, {",", ";", ":"})
      nextStartsConnector == startsWithConnector(word.text)
      currentIsDangling == isDanglingCueText(currentText)
      currentEndsConnector == endsWithConnector(currentText)
      shouldBreakOnHardLimit ==
        \/ 10 * interWordGap > 18 * maxInterWordGapSeconds(opts)
        \/ Len(currentWords) >= 3 /\ 100 * nextDuration > hardMaxCueDurationSeconds(opts)
        \/ Len(currentWords) >= 4 /\ Len(nextText) > RoundPercent(maxCueChars(opts), 165)
        \/ Len(currentWords) >= maxWordsPerCue(opts) + 4
      shouldBreakOnSoftLimit ==
        \/ interWordGap > maxInterWordGapSeconds(opts)
        \/ Len(currentWords) >= 2 /\ nextDuration > maxCueDurationSeconds(opts)
        \/ Len(currentWords) >= 3 /\ Len(nextText) > maxCueChars(opts)
        \/ Len(currentWords) >= maxWordsPerCue(opts)
      shouldBreakOnNaturalBoundary ==
        /\ cueDuration >= minCueDurationSeconds(opts)
        /\ \/ currentEndsSentence
           \/ /\ currentEndsSoft
              /\ \/ Len(nextText) > RoundPercent(maxCueChars(opts), 72)
                 \/ 10 * nextDuration > 7 * maxCueDurationSeconds(opts)
      shouldAvoidSoftBreak ==
        \/ Len(currentWords) < 3
        \/ currentIsDangling
        \/ currentEndsConnector
        \/ nextStartsConnector
  IN \/ shouldBreakOnHardLimit
     \/ shouldBreakOnNaturalBoundary
     \/ shouldBreakOnSoftLimit /\ ~shouldAvoidSoftBreak

\* the grouping loop over the words left, and the flushCurrent() after it
RECURSIVE GroupWords(_, _, _, _)
GroupWords(ws, currentWords, groups, opts) ==
  IF ws = <<>>
    THEN IF currentWords = <<>> THEN groups ELSE Append(groups, currentWords)
  ELSE IF currentWords = <<>>
    THEN GroupWords(Tail(ws), <<Head(ws)>>, groups, opts)
  ELSE IF ShouldBreak(currentWords, Head(ws), opts)
    THEN GroupWords(Tail(ws), <<Head(ws)>>, Append(groups, currentWords), opts)
  ELSE GroupWords(Tail(ws), Append(currentWords, Head(ws)), groups, opts)

canMerge(left, right, opts) ==
  LET merged == left \o right
      mergedText == buildCueTextFromWords(merged)
      duration == merged[Len(merged)].end_time - merged[1].start_time
  IN /\ Len(mergedText) <= RoundPercent(maxCueChars(opts), 175)
     /\ 200 * duration <= 3 * hardMaxCueDurationSeconds(opts)

\* a merge that loses the words of the second group
MergeLosingNext(groups, k) == SubSeq(groups, 1, k) \o SubSeq(groups, k + 2, Len(groups))

\* groups[k] = [...groups[k], ...groups[k + 1]]; groups.splice(k + 1, 1)
MergeWithNext(groups, k) ==
  SubSeq(groups, 1, k - 1) \o <<groups[k] \o groups[k + 1]>>
    \o SubSeq(groups, k + 2, Len(groups))

\* the repair loop from position index (counted from 1) on
RECURSIVE MergeGroups(_, _, _)
MergeGroups(groups, index, opts) ==
  IF index > Len(groups) THEN groups
  ELSE
    LET currentGroup == groups[index]
        currentText == buildCueTextFromWords(currentGroup)
        currentIsDangling ==
          \/ isDanglingCueText(currentText)
          \/ /\ Len(splitCueWords(currentText)) <= 2
             /\ ~endsWithSentencePunctuation(currentText)
        hasNext == index < Len(groups)
        hasPrevious == index > 1
        nextText == IF hasNext THEN buildCueTextFromWords(groups[index + 1]) ELSE <<>>
    IN IF /\ hasNext
          /\ endsWithConnector(currentText) \/ startsWithConnector(nextText)
          /\ canMerge(currentGroup, groups[index + 1], opts)
         THEN MergeGroups(MergeWithNext(groups, index), index, opts)
       ELSE IF /\ currentIsDangling
               /\ hasPrevious
               /\ canMerge(groups[index - 1], currentGroup, opts)
         THEN MergeGroups(MergeWithNext(groups, index - 1), index, opts)
       ELSE IF /\ currentIsDangling
               /\ hasNext
               /\ startsWithUppercase(nextText)
               /\ canMerge(currentGroup, groups[index + 1], opts)
         THEN MergeGroups(MergeWithNext(groups, index), index, opts)
       ELSE MergeGroups(groups, index + 1, opts)

\* a cue that ends with its last word
GroupCueUnclamped(group) ==
  [start_time |-> group[1].start_time,
   end_time |-> group[Len(group)].end_time,
   text |-> buildCueTextFromWords(group)]

\* the cue made of one group of words
GroupCue(group) ==
  [start_time |-> group[1].start_time,
   end_time |-> Max(group[1].start_time + 1, group[Len(group)].end_time),
   text |-> buildCueTextFromWords(group)]

\* inputWords.map(normalizeTimedWord).filter(Boolean).sort(...)
NormalizedWords(ws) ==
  Sort(SelectSeq([i \in 1..Len(ws) |-> normalizeTimedWord(ws[i])],
                 LAMBDA w : w # Null))

segmentWordsIntoWebVttCues(ws, opts) ==
  LET sorted == NormalizedWords(ws)
      groups == GroupWords(sorted, <<>>, <<>>, opts)
      merged == MergeGroups(groups, 1, opts)
  IN IF sorted = <<>> THEN <<>>
     ELSE IF Len(groups) <= 1 THEN [i \in 1..Len(groups) |-> GroupCue(groups[i])]
     ELSE SelectSeq([i \in 1..Len(merged) |-> GroupCue(merged[i])],
                    LAMBDA cue : cue.text # <<>>)

\* ------------------------------------------------------------------------
\* WebVTT codec; a document is a sequence of characters, a cue's times are
\* in milliseconds once a function has rounded them
\* ------------------------------------------------------------------------

LF == "\n"

\* s.split(sep) for a one-character separator
RECURSIVE SplitOn(_, _)
SplitOn(s, sep) ==
  IF \E i \in 1..Len(s) : s[i] = sep
    THEN LET at == CHOOSE i \in 1..Len(s) : s[i] = sep /\ \A k \in 1..(i - 1) : s[k] # sep
         IN <<SubSeq(s, 1, at - 1)>> \o SplitOn(Drop(s, at), sep)
    ELSE <<s>>

\* parts.join(sep)
RECURSIVE JoinWith(_, _)
JoinWith(parts, sep) ==
  IF parts = <<>> THEN <<>>
  ELSE IF Len(parts) = 1 THEN parts[1]
  ELSE parts[1] \o <<sep>> \o JoinWith(Tail(parts), sep)

\* s.replace(/^\n+/, "")
RECURSIVE DropLeadingNewlines(_)
DropLeadingNewlines(s) ==
  IF s # <<>> /\ Head(s) = LF THEN DropLeadingNewlines(Tail(s)) ELSE s

\* s.replace(/\n+$/, "")
RECURSIVE DropTrailingNewlines(_)
DropTrailingNewlines(s) ==
  IF s # <<>> /\ s[Len(s)] = LF
    THEN DropTrailingNewlines(SubSeq(s, 1, Len(s) - 1))
    ELSE s

\* s.split(/\n{2,}/)
RECURSIVE SplitBlocks(_)
SplitBlocks(s) ==
  IF \E i \in 1..(Len(s) - 1) : s[i] = LF /\ s[i + 1] = LF
    THEN LET at == CHOOSE i \in 1..(Len(s) - 1) :
                     /\ s[i] = LF /\ s[i + 1] = LF
                     /\ \A k \in 1..(i - 1) : ~(s[k] = LF /\ s[k + 1] = LF)
         IN <<SubSeq(s, 1, at - 1)>> \o SplitBlocks(DropLeadingNewlines(Drop(s, at)))
    ELSE <<s>>

AllDigits(s) == \A i \in 1..Len(s) : IsDigit(s[i])

\* Number.parseInt(s, 10) for a string of digits
RECURSIVE ParseInt(_)
ParseInt(s) ==
  IF s = <<>> THEN 0
  ELSE 10 * ParseInt(SubSeq(s, 1, Len(s) - 1))
         + (CHOOSE d \in 0..9 : DecimalDigits[d + 1] = s[Len(s)])

\* String(n) for a natural number
RECURSIVE NumberToString(_)
NumberToString(n) ==
  IF n < 10 THEN <<DecimalDigits[n + 1]>>
  ELSE Append(NumberToString(n \div 10), DecimalDigits[(n % 10) + 1])

\* s.padStart(width, "0")
RECURSIVE PadStart(_, _)
PadStart(s, width) == IF Len(s) >= width THEN s ELSE PadStart(<<"0">> \o s, width)

\* s.padEnd(width, "0")
RECURSIVE PadEnd(_, _)
PadEnd(s, width) == IF Len(s) >= width THEN s ELSE PadEnd(Append(s, "0"), width)

\* parseTimestamp's null
NoTimestamp == 0 - 1

\* WEBVTT_TIMESTAMP matched against the trimmed value, then the arithmetic;
\* the result is in milliseconds
parseTimestamp(raw) ==
  LET value == Trim(raw)
      fields == SplitOn(value, ":")
      n == Len(fields)
      lastField == fields[n]
      secondsText == SubSeq(lastField, 1, 2)
      fraction == Drop(lastField, 3)
      matches ==
        /\ n \in {2, 3}
        /\ n = 3 => (Len(fields[1]) >= 1 /\ AllDigits(fields[1]))
        /\ Len(fields[n - 1]) = 2 /\ AllDigits(fields[n - 1])
        /\ Len(lastField) >= 2 /\ AllDigits(secondsText)
        /\ \/ Len(lastField) = 2
           \/ /\ lastField[3] \in {".", ","}
              /\ Len(fraction) \in 1..3
              /\ AllDigits(fraction)
      hours == IF n = 3 THEN ParseInt(fields[1]) ELSE 0
      minutes == ParseInt(fields[n - 1])
      seconds == ParseInt(secondsText)
      milliseconds == ParseInt(SubSeq(PadEnd(fraction, 3), 1, 3))
  IN IF value = <<>> \/ ~matches THEN NoTimestamp
     ELSE Max(0, hours * 3600000 + minutes * 60000 + seconds * 1000 + milliseconds)

\* formatTimestamp of a time in milliseconds
formatTimestamp(ms) ==
  LET totalMilliseconds == Max(0, ms)
      hours == totalMilliseconds \div 3600000
      minutes == (totalMilliseconds % 3600000) \div 60000
      seconds == (totalMilliseconds % 60000) \div 1000
      milliseconds == totalMilliseconds % 1000
  IN JoinWith(<<PadStart(NumberToString(hours), 2), PadStart(NumberToString(minutes), 2),
                PadStart(NumberToString(seconds), 2)>>, ":")
       \o <<".">> \o PadStart(NumberToString(milliseconds), 3)

\* a cue object, with its identifier property only when there is one
Cue(identifier, start, end, txt) ==
  IF identifier # <<>>
    THEN [identifier |-> identifier, start_time |-> start, end_time |-> end, text |-> txt]
    ELSE [start_time |-> start, end_time |-> end, text |-> txt]

\* cue.identifier, undefined read as the empty string
IdentifierOf(cue) == IF "identifier" \in DOMAIN cue THEN cue.identifier ELSE <<>>

\* sanitizeCue of a cue whose times are a caller's numbers
sanitizeCue(cue) ==
  LET trimmed == Trim(cue.text)
      start == toFiniteNonNegativeNumber(cue.start_time)
      endCandidate == toFiniteNonNegativeNumber(cue.end_time)
      end == IF endCandidate > start THEN endCandidate
             ELSE 1000 * ToFixed3(start + 1000)
  IN IF trimmed = <<>> THEN Null
     ELSE Cue(Trim(IdentifierOf(cue)), ToFixed3(start), ToFixed3(end), trimmed)

ARROW == <<"-", "-", ">">>

\* the lines written for one sanitized cue
CueLines(cue) ==
  (IF IdentifierOf(cue) # <<>> THEN <<cue.identifier>> ELSE <<>>)
    \o << formatTimestamp(cue.start_time) \o <<SP>> \o ARROW \o <<SP>>
            \o formatTimestamp(cue.end_time),
          cue.text,
          <<>> >>

RECURSIVE AllCueLines(_)
AllCueLines(cs) ==
  IF cs = <<>> THEN <<>> ELSE CueLines(Head(cs)) \o AllCueLines(Tail(cs))

WEBVTT == <<"W", "E", "B", "V", "T", "T">>

serializeWebVttCues(cs) ==
  LET sanitized == Sort(SelectSeq([i \in 1..Len(cs) |-> sanitizeCue(cs[i])],
                                  LAMBDA cue : cue # Null))
      EndWithOneNewline(s) ==
        IF s # <<>> /\ s[Len(s)] = LF THEN DropTrailingNewlines(s) \o <<LF>> ELSE s
  IN IF sanitized = <<>> THEN WEBVTT \o <<LF, LF>>
     ELSE EndWithOneNewline(JoinWith(<<WEBVTT, <<>>>> \o AllCueLines(sanitized), LF))

\* WEBVTT_HEADER.test(line)
IsHeader(line) ==
  /\ StartsWith(toLowerCase(line), toLowerCase(WEBVTT))
  /\ Len(line) > Len(WEBVTT) => line[Len(WEBVTT) + 1] \in {SP, "\t"}

\* the index (counted from 1) of the timing line among the first two
\* lines, 0 when neither holds an arrow
TimingIndex(lines) ==
  IF Includes(lines[1], ARROW) THEN 1
  ELSE IF Len(lines) >= 2 /\ Includes(lines[2], ARROW) THEN 2
  ELSE 0

\* the cues, none or one, that the loop body pushes for rawBlock
ParseBlock(rawBlock) ==
  LET block == Trim(rawBlock)
      split == SplitOn(block, LF)
      lines == [i \in 1..Len(split) |-> TrimEnd(split[i])]
      firstLine == Trim(lines[1])
      timingIndex == TimingIndex(lines)
      timingLine == Trim(lines[timingIndex])
      tokens == SplitOnSpaces(timingLine)
      start == parseTimestamp(tokens[1])
      end == parseTimestamp(tokens[3])
      cueText == normalizeCueText(Join(SubSeq(lines, timingIndex + 1, Len(lines))))
      identifier == IF timingIndex > 1 THEN Trim(lines[1]) ELSE <<>>
  IN IF block = <<>> THEN <<>>
     ELSE IF \/ StartsWith(firstLine, <<"N", "O", "T", "E">>)
             \/ firstLine = <<"S", "T", "Y", "L", "E">>
             \/ firstLine = <<"R", "E", "G", "I", "O", "N">>
       THEN <<>>
     ELSE IF timingIndex = 0 THEN <<>>
     ELSE IF ~(Len(tokens) >= 3 /\ tokens[2] = ARROW) THEN <<>>
     ELSE IF start = NoTimestamp \/ end = NoTimestamp \/ end < start THEN <<>>
     ELSE IF cueText = <<>> THEN <<>>
     ELSE <<Cue(identifier, start, end, cueText)>>

\* a loop that gives up at the first block it cannot use
RECURSIVE ParseBlocksUntilSkipped(_)
ParseBlocksUntilSkipped(blocks) ==
  IF blocks = <<>> \/ ParseBlock(Head(blocks)) = <<>> THEN <<>>
  ELSE ParseBlock(Head(blocks)) \o ParseBlocksUntilSkipped(Tail(blocks))

\* for (const rawBlock of blocks) { ... continue ... cues.push(...) }
RECURSIVE ParseBlocks(_)
ParseBlocks(blocks) ==
  IF blocks = <<>> THEN <<>>
  ELSE ParseBlock(Head(blocks)) \o ParseBlocks(Tail(blocks))

parseWebVttCues(raw) ==
  LET normalized == normalizeLineEndings(raw)
      trimmed == Trim(IF normalized # <<>> /\ Head(normalized) = BOM
                        THEN Tail(normalized) ELSE normalized)
      blocks == SplitBlocks(trimmed)
      headerLine == Trim(SplitOn(blocks[1], LF)[1])
  IN IF trimmed = <<>> THEN <<>>
     ELSE IF ~IsHeader(headerLine) THEN <<>>
     ELSE ParseBlocks(Tail(blocks))

\* ------------------------------------------------------------------------
\* Arguments of the caption functions
\* ------------------------------------------------------------------------

\* longest word list handed to the segmenter
MaxInputWords == 4

\* longest cue list handed to the serializer
MaxInputCues == 2

\* most blocks after the header of a document handed to the parser
MaxBlocks == 2

\* all sequences of at most n members of set
SeqsUpTo(set, n) == UNION {[1..k -> set] : k \in 0..n}

Second == 1000 * 1000

InputWordMenu ==
  { Word(<<"H", "i", ".">>, Num(0), Num(10 * Second)),          \* a long sentence
    Word(<<"y", "o", ".">>, Num(3 * Second), Num(4 * Second)),  \* spoken during it
    Word(<<".", ".", ".">>, Num(0), Num(Second)),                \* no word in it
    Word(<<"o", "f">>, Num(30 * Second), NotANumber),            \* a connector, end is NaN
    Word(<<"<", "b", ">">>, Num(4 * Second), Num(3 * Second)), \* markup, end < start
    Word(<<"s", "o", ",">>, Num(0 - Second), Num(400)),       \* negative start, under 1 ms
    Word(<<SP>>, Num(0), Num(Second)) }                      \* blank

InputCueMenu ==
  { [start_time |-> Num(0), end_time |-> Num(1500 * 1000), text |-> <<"h", "i">>],
    [identifier |-> <<"c", "1">>, start_time |-> Num(Second + 400),
     end_time |-> Num(2 * Second), text |-> <<"a", ".">>],
    [start_time |-> Num(Second), end_time |-> Num(2 * Second), text |-> <<"<", "b", ">", "x">>],
    [start_time |-> Num(Second), end_time |-> Num(3 * Second),
     text |-> <<"y", LF, LF, "z">>],
    [identifier |-> <<"N", "O", "T", "E">>, start_time |-> Num(2 * Second),
     end_time |-> Num(3 * Second), text |-> <<"w">>],
    [start_time |-> Num(5 * Second), end_time |-> NotANumber, text |-> <<"v">>],
    [start_time |-> Num(2 * Second), end_time |-> Num(2 * Second + 400), text |-> <<"s">>],
    [start_time |-> Num(0), end_time |-> Num(Second), text |-> <<SP>>] }

\* blocks of a document: their characters, what they are, and the cue a
\* well-formed one holds
BlockMenu ==
  { \* a cue
    [chars |-> <<"0", "0", ":", "0", "1", ".", "0", "0", "0", " ", "-", "-", ">",
               " ", "0", "0", ":", "0", "2", ".", "0", "0", "0", "\n", "h", "i">>,
     kind |-> "cue", cue |-> Cue(<<>>, 1000, 2000, <<"h", "i">>)],
    \* identifier, hours, comma, cue settings, markup
    [chars |-> <<"c", "1", "\n", "0", "0", ":", "0", "0", ":", "0", "3", ",",
               "5", " ", "-", "-", ">", " ", "0", "1", ":", "0", "0", ":", "0",
               "5", ".", "0", "0", "0", " ", "a", ":", "b", "\n", "<", "b",
               ">", "x", "<", "/", "b", ">", " ", "!">>,
     kind |-> "cue", cue |-> Cue(<<"c", "1">>, 3500, 3605000, <<"x", "!">>)],
    \* end = start
    [chars |-> <<"0", "0", ":", "0", "1", ".", "0", "0", "0", " ", "-", "-", ">",
               " ", "0", "0", ":", "0", "1", ".", "0", "0", "0", "\n", "e">>,
     kind |-> "cue", cue |-> Cue(<<>>, 1000, 1000, <<"e">>)],
    \* a NOTE block that holds a timing line
    [chars |-> <<"N", "O", "T", "E", " ", "n", "\n", "0", "0", ":", "0", "1",
               ".", "0", "0", "0", " ", "-", "-", ">", " ", "0", "0", ":", "0",
               "2", ".", "0", "0", "0", "\n", "n", "o">>,
     kind |-> "comment", cue |-> Null],
    \* a STYLE block that holds a timing line
    [chars |-> <<"S", "T", "Y", "L", "E", "\n", "0", "0", ":", "0", "1", ".",
               "0", "0", "0", " ", "-", "-", ">", " ", "0", "0", ":", "0", "2",
               ".", "0", "0", "0", "\n", "n", "o">>,
     kind |-> "comment", cue |-> Null],
    \* a REGION block that holds a timing line
    [chars |-> <<"R", "E", "G", "I", "O", "N", "\n", "0", "0", ":", "0", "1",
               ".", "0", "0", "0", " ", "-", "-", ">", " ", "0", "0", ":", "0",
               "2", ".", "0", "0", "0", "\n", "n", "o">>,
     kind |-> "comment", cue |-> Null],
    \* no timing line in the first two lines
    [chars |-> <<"a", "\n", "b", "\n", "0", "0", ":", "0", "1", ".", "0", "0",
               "0", " ", "-", "-", ">", " ", "0", "0", ":", "0", "2", ".", "0",
               "0", "0", "\n", "z">>,
     kind |-> "malformed", cue |-> Null],
    \* unparseable timestamp
    [chars |-> <<"0", ":", "1", " ", "-", "-", ">", " ", "0", "0", ":", "0", "2",
               ".", "0", "0", "0", "\n", "q">>,
     kind |-> "malformed", cue |-> Null],
    \* end < start
    [chars |-> <<"0", "0", ":", "0", "2", ".", "0", "0", "0", " ", "-", "-", ">",
               " ", "0", "0", ":", "0", "1", ".", "0", "0", "0", "\n", "q">>,
     kind |-> "malformed", cue |-> Null],
    \* empty text
    [chars |-> <<"0", "0", ":", "0", "1", ".", "0", "0", "0", " ", "-", "-", ">",
               " ", "0", "0", ":", "0", "2", ".", "0", "0", "0", "\n", "<",
               "b", ">">>,
     kind |-> "malformed", cue |-> Null] }

NoSource == [header |-> [chars |-> <<>>, valid |-> FALSE], blocks |-> <<>>, newline |-> <<>>]

\* s with every line feed written as newline
RECURSIVE WithNewlines(_, _)
WithNewlines(s, newline) ==
  IF \E i \in 1..Len(s) : s[i] = LF
    THEN LET at == CHOOSE i \in 1..Len(s) : s[i] = LF /\ \A k \in 1..(i - 1) : s[k] # LF
         IN SubSeq(s, 1, at - 1) \o newline \o WithNewlines(Drop(s, at), newline)
    ELSE s

\* the document of a header and blocks, a blank line between them
RECURSIVE BlocksText(_)
BlocksText(blocks) ==
  IF blocks = <<>> THEN <<>>
  ELSE <<LF, LF>> \o Head(blocks).chars \o BlocksText(Tail(blocks))

Document(src) ==
  WithNewlines(src.header.chars \o BlocksText(src.blocks) \o <<LF>>, src.newline)

\* ------------------------------------------------------------------------
\* Calls of the caption functions
\* ------------------------------------------------------------------------

\* a caller holds a word list and options
InitSegment ==
  /\ HandlerInit
  /\ NoApp
  /\ inputWords \in SeqsUpTo(InputWordMenu, MaxInputWords)
  /\ options \in
       { <<>>,
         [maxCueChars |-> 1, maxCueDurationSeconds |-> 1, minCueDurationSeconds |-> 1,
          maxWordsPerCue |-> 1, maxInterWordGapSeconds |-> 1] }
  /\ cues = <<>>
  /\ input = <<>>
  /\ rawValue = <<>>
  /\ source = NoSource
  /\ parsed = <<>>
  /\ step = "ready"

\* cues = segmentWordsIntoWebVttCues(inputWords, options)
segment ==
  /\ step = "ready"
  /\ cues' = segmentWordsIntoWebVttCues(inputWords, options)
  /\ step' = "segmented"
  /\ UNCHANGED <<engine, stt, loader, media>>
  /\ UNCHANGED <<inputWords, options, input, rawValue, source, parsed>>

\* a caller holds a cue list to write, or a document to read
InitCodec ==
  /\ HandlerInit
  /\ NoApp
  /\ inputWords = <<>>
  /\ options = <<>>
  /\ cues = <<>>
  /\ parsed = <<>>
  /\ \/ /\ input \in SeqsUpTo(InputCueMenu, MaxInputCues)
        /\ source = NoSource
        /\ rawValue = <<>>
        /\ step = "ready"
     \/ /\ input = <<>>
        \* what the document starts with, and whether that is a WEBVTT header
        /\ source \in
             [header : { [chars |-> WEBVTT, valid |-> TRUE],
                         [chars |-> <<BOM, LF, SP, LF>> \o toLowerCase(WEBVTT)
                                      \o <<" ", "-", " ", "x">>,
                          valid |-> TRUE],
                         [chars |-> WEBVTT \o <<"X">>, valid |-> FALSE],
                         [chars |-> <<"h", "i">>, valid |-> FALSE] },
              blocks : SeqsUpTo(BlockMenu, MaxBlocks),
              newline : {<<LF>>, <<"\r", LF>>, <<"\r">>}]
        /\ rawValue = Document(source)
        /\ step = "written"

\* rawValue = serializeWebVttCues(input)
serialize ==
  /\ step = "ready"
  /\ rawValue' = serializeWebVttCues(input)
  /\ step' = "serialized"
  /\ UNCHANGED <<engine, stt, loader, media>>
  /\ UNCHANGED <<inputWords, options, cues, input, source, parsed>>

\* parsed = parseWebVttCues(rawValue)
parse ==
  /\ step \in {"serialized", "written"}
  /\ parsed' = parseWebVttCues(rawValue)
  /\ step' = IF step = "serialized" THEN "reparsed" ELSE "parsed"
  /\ UNCHANGED <<engine, stt, loader, media>>
  /\ UNCHANGED <<inputWords, options, cues, input, rawValue, source>>

\* ------------------------------------------------------------------------
\* The recording panel (one recording session)
\*
\* The recorded audio is counted in quarter seconds. tickCalls and finalCalls
\* hold the audio lengths of the engine calls the timer and stopSttRecording
\* have started on the session's handler and that have not settled.
\* ------------------------------------------------------------------------

\* PARAKEET_SAMPLE_RATE / 2, in quarter seconds
HalfSecond == 2

\* handleStartSttRecording: buffer, handler, recorder and timer are created
handleStartSttRecording(mode) ==
  /\ ~stt.handler /\ stt.stopping = "no"
  /\ stt' = [stt EXCEPT !.buffer = TRUE, !.handler = TRUE, !.recorder = TRUE,
                        !.interval = TRUE, !.mode = mode]
  /\ UNCHANGED <<engine, captions, loader, media>>

\* the recorder delivers a chunk, until its stop() has resolved
onDataAvailable ==
  /\ stt.recorder \/ stt.stopping = "recorder"
  /\ stt.recorded < MaxRecorded
  /\ stt' = [stt EXCEPT !.recorded = @ + 1]
  /\ UNCHANGED <<engine, captions, loader, media>>

\* the timer's callback up to its await: a call is started unless one is in
\* flight, a ref is null or less than half a second is recorded
sttIntervalCallback ==
  /\ stt.interval
  /\ ~(stt.inFlight \/ ~stt.buffer \/ ~stt.handler)
  /\ ~(stt.recorded < HalfSecond)
  /\ stt' = [stt EXCEPT !.inFlight = TRUE, !.tickCalls = Append(@, stt.recorded)]
  /\ UNCHANGED <<engine, captions, loader, media>>

\* a tick's call resolves or rejects: a resolved call's partial is shown, and
\* the finally block clears the flag
TickSettled(resolved) ==
  /\ \E i \in DOMAIN stt.tickCalls :
       stt' = [stt EXCEPT !.tickCalls = SubSeq(@, 1, i - 1) \o SubSeq(@, i + 1, Len(@)),
                          !.sessionDuration = IF resolved THEN stt.tickCalls[i] ELSE @,
                          !.inFlight = FALSE]
  /\ UNCHANGED <<engine, captions, loader, media>>

\* stopSttRecording up to await recorder.stop()
stopSttRecording(wanted) ==
  /\ stt.recorder
  /\ stt' = [stt EXCEPT !.interval = FALSE, !.recorder = FALSE,
                        !.stopping = "recorder", !.finalize = wanted]
  /\ UNCHANGED <<engine, captions, loader, media>>

\* the end of stopSttRecording: flag and refs are cleared
Cleanup(s) ==
  [s EXCEPT !.inFlight = FALSE, !.buffer = FALSE, !.handler = FALSE,
            !.stopping = "done"]

\* recorder.stop() has settled: the finalizing call is started when asked for
\* and more than half a second is recorded
RecorderStopped ==
  /\ stt.stopping = "recorder"
  /\ stt' = IF stt.finalize /\ stt.buffer /\ stt.handler /\ stt.recorded > HalfSecond
            THEN [stt EXCEPT !.stopping = "final", !.finalCalls = Append(@, stt.recorded)]
            ELSE Cleanup(stt)
  /\ UNCHANGED <<engine, captions, loader, media>>

\* the finalizing call resolves or rejects: a resolved call's text is shown
FinalSettled(resolved) ==
  /\ stt.stopping = "final"
  /\ stt' = Cleanup([stt EXCEPT !.finalCalls = Tail(@),
                                !.sessionDuration = IF resolved THEN Head(stt.finalCalls)
                                                    ELSE @])
  /\ UNCHANGED <<engine, captions, loader, media>>

\* ------------------------------------------------------------------------
\* The recognizer loader
\*
\* A load is numbered by its place in loader.loads, which holds its promise's
\* state; sharedTranscriberPromise is the number of the load it is the promise
\* of and sharedTranscriber the number of the load that made it (0 for null).
\* A caller is "creator" while it awaits the load it started, "joined" while
\* the promise it was handed is unsettled or its reaction is still queued,
\* and "returned" or "threw" with the load whose outcome it got.
\* ------------------------------------------------------------------------

\* loadParakeetTranscriber up to its await. Every call site runs in an event
\* handler or a timer callback, that is when no reaction of a settled load is
\* still queued.
loadParakeetTranscriber(c) ==
  /\ loader.callers[c].at \notin {"creator", "joined"}
  /\ ~\E d \in Callers : /\ loader.callers[d].at \in {"creator", "joined"}
                         /\ loader.loads[loader.callers[d].load] # "pending"
  /\ IF loader.sharedTranscriber # 0
       THEN loader' = [loader EXCEPT !.callers[c] =
                         [at |-> "returned", load |-> loader.sharedTranscriber]]
       ELSE IF loader.sharedTranscriberPromise # 0
       THEN loader' = [loader EXCEPT !.callers[c] =
                         [at |-> "joined", load |-> loader.sharedTranscriberPromise]]
       ELSE /\ Len(loader.loads) < MaxLoads
            /\ loader' = [loader EXCEPT
                            !.loads = Append(@, "pending"),
                            !.sharedTranscriberPromise = Len(loader.loads) + 1,
                            !.callers[c] = [at |-> "creator", load |-> Len(loader.loads) + 1]]
  /\ UNCHANGED <<engine, captions, stt, media>>

\* the load's last step: the transcriber is shared and the promise resolves
LoadResolved(n) ==
  /\ n \in DOMAIN loader.loads /\ loader.loads[n] = "pending"
  /\ loader' = [loader EXCEPT !.loads[n] = "resolved", !.sharedTranscriber = n]
  /\ UNCHANGED <<engine, captions, stt, media>>

\* the import, the download or the warm-up fails: the promise rejects
LoadRejected(n) ==
  /\ n \in DOMAIN loader.loads /\ loader.loads[n] = "pending"
  /\ loader' = [loader EXCEPT !.loads[n] = "rejected"]
  /\ UNCHANGED <<engine, captions, stt, media>>

CaughtKeepingPromise(l) == l

\* the catch block of the call that started the load
Caught(l) == [l EXCEPT !.sharedTranscriberPromise = 0]

\* the call that started the load resumes after its await
CreatorResumes(c) ==
  /\ loader.callers[c].at = "creator"
  /\ loader.loads[loader.callers[c].load] # "pending"
  /\ loader' = IF loader.loads[loader.callers[c].load] = "resolved"
               THEN [loader EXCEPT !.callers[c].at = "returned"]
               ELSE Caught([loader EXCEPT !.callers[c].at = "threw"])
  /\ UNCHANGED <<engine, captions, stt, media>>

\* a call that was handed the promise settles as the promise did; its reaction
\* is queued behind that of the call that started the load
JoinerResumes(c) ==
  /\ loader.callers[c].at = "joined"
  /\ loader.loads[loader.callers[c].load] # "pending"
  /\ \A d \in Callers : ~(/\ loader.callers[d].at = "creator"
                           /\ loader.callers[d].load = loader.callers[c].load)
  /\ loader' = [loader EXCEPT !.callers[c].at =
                  IF loader.loads[loader.callers[c].load] = "resolved" THEN "returned"
                  ELSE "threw"]
  /\ UNCHANGED <<engine, captions, stt, media>>

\* ------------------------------------------------------------------------
\* The media canvas annotator and the runtime store of its canvas
\*
\* An id is a string (a sequence of characters); a selection is null or an
\* id. media.stored is annotationsByCanvasId[canvasId] and media.state is
\* state.byCanvasId[canvasId]; media.built counts the ids that were generated.
\* ------------------------------------------------------------------------

\* the selection that is null; a selected id is [null |-> FALSE, id |-> ...]
NoSelection == [null |-> TRUE, id |-> <<>>]

\* the current entry with the updates written over it
updateCanvasRuntimeState(current, updates) ==
  [k \in DOMAIN current |-> IF k \in DOMAIN updates THEN updates[k] ELSE current[k]]

\* the annotations are stored and published, a selection that is not among
\* them is dropped, and the selection is published
syncRuntime(m) ==
  LET persisted == m.annotations
      counted == updateCanvasRuntimeState(m.state,
                   [localAnnotationCount |-> Max(0, Len(persisted))])
      marked == updateCanvasRuntimeState(counted,
                  [localCloverMarks |-> [i \in DOMAIN persisted |-> persisted[i].id],
                   localAnnotationCount |-> Len(persisted)])
      selected == IF /\ ~m.selectedAnnotationId.null /\ m.selectedAnnotationId.id # <<>>
                     /\ \A i \in DOMAIN persisted : persisted[i].id # m.selectedAnnotationId.id
                  THEN NoSelection ELSE m.selectedAnnotationId
  IN [m EXCEPT !.stored = persisted, !.selectedAnnotationId = selected,
               !.state = updateCanvasRuntimeState(marked,
                           [selectedLocalScholiumId |-> selected])]

\* a generated id is one no annotation has had
createAnnotation(annotationInput) ==
  /\ Len(media.annotations) < MaxAnnotations
  /\ Trim(annotationInput.id) = <<>> => media.built < MaxAnnotations
  /\ LET generate == Trim(annotationInput.id) = <<>>
         buildAnnotationId(n) == <<"#">> \o NumberToString(n)
         nextId == IF generate THEN buildAnnotationId(media.built + 1)
                   ELSE Trim(annotationInput.id)
         normalized == [annotationInput EXCEPT !.id = nextId]
     IN media' = syncRuntime([media EXCEPT
                   !.annotations = Append(@, normalized),
                   !.selectedAnnotationId = [null |-> FALSE, id |-> nextId],
                   !.built = IF generate THEN @ + 1 ELSE @])
  /\ UNCHANGED <<engine, captions, stt, loader>>

removeAnnotation(annotationId) ==
  /\ annotationId # <<>>
  /\ media' = syncRuntime([media EXCEPT
                 !.annotations = SelectSeq(@, LAMBDA annotation : annotation.id # annotationId),
                 !.selectedAnnotationId = IF @ = [null |-> FALSE, id |-> annotationId]
                                          THEN NoSelection ELSE @])
  /\ UNCHANGED <<engine, captions, stt, loader>>

\* arg is a string, an array of strings or undefined
setSelected(arg) ==
  /\ LET selected == IF arg.array
                       THEN IF arg.ids # <<>> THEN [null |-> FALSE, id |-> arg.ids[1]]
                            ELSE NoSelection
                     ELSE IF arg.ids # <<>> /\ Len(Trim(arg.ids[1])) > 0
                       THEN [null |-> FALSE, id |-> arg.ids[1]]
                     ELSE NoSelection
     IN media' = [media EXCEPT
                   !.selectedAnnotationId = selected,
                   !.state = updateCanvasRuntimeState(@,
                               [selectedLocalScholiumId |-> selected])]
  /\ UNCHANGED <<engine, captions, stt, loader>>

updateAnnotation(annotationInput) ==
  /\ LET annotationId == Trim(annotationInput.id)
         found == {i \in DOMAIN media.annotations : media.annotations[i].id = annotationId}
     IN /\ annotationId # <<>>
        /\ found # {}
        /\ LET existingIndex == CHOOSE i \in found : \A k \in found : i <= k
               merged == [annotationInput EXCEPT !.id = annotationId]
           IN media' = syncRuntime([media EXCEPT !.annotations[existingIndex] = merged])
  /\ UNCHANGED <<engine, captions, stt, loader>>

\* ids a caller hands in: none, an id, the same with white space, another id
IdMenu == {<<>>, <<"a">>, <<" ", "a">>, <<"b">>}

\* ------------------------------------------------------------------------
\* Specifications
\* ------------------------------------------------------------------------

IncrementalSteps ==
  \/ \E result \in Results : IncrementalFirst(result)
  \/ \E result \in Results : IncrementalSecond(result)
  \/ IncrementalReject

\* a live session: the recorder fills the buffer, the timer transcribes it
SpecStream == Init /\ [][
  \/ appendChunk
  \/ reset
  \/ transcribeIncremental
  \/ finalize
  \/ IncrementalSteps ]_vars

\* replay of a pre-recorded buffer
SpecProgressive == Init /\ [][
  \/ \E a \in AudioLengths : transcribeProgressive(a)
  \/ ProgressiveResume
  \/ IncrementalSteps ]_vars

\* offline transcription of a decoded buffer
SpecBatch == Init /\ [][
  \/ \E a \in AudioLengths : transcribeBatch(a)
  \/ \E a \in AudioLengths : transcribeBatchLatest(a)
  \/ \E result \in Results : BatchResult(result)
  \/ BatchReject ]_vars

\* a handler that has run a generator is reset before it serves a live session
Next ==
  \/ appendChunk
  \/ reset
  \/ /\ ret.op \notin {"transcribeProgressive", "transcribeBatch", "transcribeBatchLatest"}
     /\ transcribeIncremental
  \/ /\ ret.op \notin {"transcribeProgressive", "transcribeBatch", "transcribeBatchLatest"}
     /\ finalize
  \/ IncrementalSteps
  \/ \E a \in AudioLengths : transcribeProgressive(a)
  \/ ProgressiveResume
  \/ \E a \in AudioLengths : transcribeBatch(a)
  \/ \E a \in AudioLengths : transcribeBatchLatest(a)
  \/ \E result \in Results : BatchResult(result)
  \/ BatchReject

Spec == Init /\ [][Next]_vars

\* the recognizer answers every call, with a result or a rejection
FairBatch ==
  SpecBatch /\ WF_vars((\E result \in Results : BatchResult(result)) \/ BatchReject)

\* one call of the segmenter

SpecSegment == InitSegment /\ [][segment]_vars

\* a cue list is written and read back, or a document is read
SpecCodec == InitCodec /\ [][
  \/ serialize
  \/ parse ]_vars

\* a recording session of the panel
SpecRecording == Init /\ [][
  \/ \E mode \in {"fast", "realtime"} : handleStartSttRecording(mode)
  \/ onDataAvailable
  \/ sttIntervalCallback
  \/ \E resolved \in BOOLEAN : TickSettled(resolved)
  \/ \E wanted \in BOOLEAN : stopSttRecording(wanted)
  \/ RecorderStopped
  \/ \E resolved \in BOOLEAN : FinalSettled(resolved) ]_vars

\* concurrent and repeated requests for the recognizer
SpecLoader == Init /\ [][
  \/ \E c \in Callers : loadParakeetTranscriber(c)
  \/ \E n \in 1..MaxLoads : LoadResolved(n)
  \/ \E n \in 1..MaxLoads : LoadRejected(n)
  \/ \E c \in Callers : CreatorResumes(c)
  \/ \E c \in Callers : JoinerResumes(c) ]_vars

\* the calls of a media canvas annotator
SpecMedia == Init /\ [][
  \/ \E id \in IdMenu, body \in {"x", "y"} : createAnnotation([id |-> id, body |-> body])
  \/ \E id \in IdMenu, body \in {"x", "y"} : updateAnnotation([id |-> id, body |-> body])
  \/ \E id \in IdMenu : removeAnnotation(id)
  \/ \E array \in BOOLEAN, ids \in SeqsUpTo(IdMenu, 1) :
       setSelected([array |-> array, ids |-> ids]) ]_vars

\* ------------------------------------------------------------------------
\* Properties
\* ------------------------------------------------------------------------

BatchDone == pc = "idle" /\ ret.op = "transcribeBatch" /\ ~ret.error

\* an iteration of transcribeBatch's loop ran to its yield
BatchIteration == pc = "batch_await" /\ emitted' = emitted + 1

BatchEndsFinal ==
  (BatchDone /\ ret.audio > 0) =>
    /\ emitted >= 1
    /\ last.isFinal
    /\ last.timestamp = Duration(ret.audio)
    /\ finals = 1

\* C3: a transcribeIncremental call that fails leaves fixedSentences,
\* fixedWords and fixedEndTime as they were when it was called.
FailedCallKeepsLocked ==
  (pc = "idle" /\ ret.op = "transcribeIncremental" /\ ret.error) => Locked = pre

\* a step that starts a new session: reset(), or a generator's first step
SessionStart ==
  \/ ret'.op = "reset"
  \/ pc = "idle" /\ caller' \in {"progressive_loop", "progressive_final"}
  \/ pc = "idle" /\ ret'.op \in {"running", "transcribeBatch", "transcribeBatchLatest"}

\* a step in which the engine returns or yields a partial
Produced ==
  \/ emitted' = emitted + 1
  \/ /\ pc' = "idle"
     /\ ret'.op \in {"transcribeIncremental", "finalize"}
     /\ ~ret'.error
     /\ audioBuffer' = audioBuffer

\* C4: locked text is never revised. Within a session fixedSentences and
\* fixedWords only grow at their end, every partial starts its words with
\* the locked words, and the fixedText of a partial extends the fixedText
\* of the partial before it.
LockedNeverRevised ==
  [][/\ ~SessionStart =>
          /\ IsPrefix(fixedSentences, fixedSentences')
          /\ IsPrefix(fixedWords, fixedWords')
     /\ Produced => IsPrefix(fixedWords', last'.words)
     /\ (Produced /\ ~SessionStart /\ last # NoPartial) =>
          IsPrefix(last.fixedText, last'.fixedText)]_vars

\* a partial was produced after the session locked text twice
LockedTwice ==
  /\ Len(fixedSentences) >= 2
  /\ Len(fixedWords) >= 2
  /\ pc = "idle"
  /\ last.fixedText = Join(fixedSentences)

\* C5: a transcribeIncremental call that repeats the previous call's buffer
\* returns the previous call's fixedText and activeText and does not invoke
\* the recognizer.
RepeatedCallSameTexts ==
  [][(/\ pc = "idle" /\ pc' = "idle"
      /\ ret.op = "transcribeIncremental" /\ ~ret.error
      /\ ret.audio = audioBuffer /\ audioBuffer' = audioBuffer
      /\ ret'.op = "transcribeIncremental") =>
        /\ last'.fixedText = last.fixedText
        /\ last'.activeText = last.activeText
        /\ ret'.calls = 0]_vars

\* C6: transcribeProgressive ends with exactly one final partial, stamped
\* with the duration of the whole buffer, whose active text and words are
\* the recognizer's latest transcription of the audio after fixedEndTime.
ProgressiveFinalCoversBuffer ==
  (pc = "idle" /\ ret.op = "transcribeProgressive" /\ ~ret.error) =>
    /\ finals = 1
    /\ last.isFinal
    /\ last.timestamp = Duration(fullAudio)
    /\ heard # NoResult =>
         /\ last.activeText = Trim(heard.text)
         /\ last.words = fixedWords \o ShiftWords(heard.words, fixedEndTime)

\* C7: finalize called with the buffer of the transcribeIncremental call
\* just before it returns that call's fixedText followed by its activeText,
\* trimmed.
FinalizeMergesLast ==
  [][(/\ pc = "idle" /\ pc' = "idle"
      /\ ret.op = "transcribeIncremental" /\ ~ret.error
      /\ ret.audio = audioBuffer /\ audioBuffer' = audioBuffer
      /\ ret'.op = "finalize" /\ ~ret'.error) =>
        ret'.text = FinalizeText(last)]_vars

Transcribing == pc \in {"incremental_first", "incremental_second", "batch_await"}

\* C8: no window handed to the recognizer starts before the end of the
\* audio whose text or words are already locked (to the sample).
NeverRetranscribesLocked ==
  Transcribing => window.start >= ToSamples(lockedAudioEnd)

\* C9: a window of transcribeIncremental is no longer than config.maxWindowSeconds
\* plus the audio added since the previous call, and a window of
\* transcribeBatch is no longer than config.maxWindowSeconds.
WindowBounded ==
  Transcribing =>
    Duration(window.end - window.start) <= config.maxWindowSeconds + Duration(window.added)

\* C10: the number of words of the partials of one transcribeBatch run
\* never decreases from one partial to the next.
BatchWordCountMonotone ==
  [][(BatchIteration /\ emitted >= 1) => Len(last'.words) >= Len(last.words)]_vars

NonNegativeTimes(ws) ==
  \A i \in 1..Len(ws) : ws[i].start_time >= 0 /\ ws[i].end_time >= 0

\* C11: fixedEndTime never decreases within a session of transcribeIncremental
\* calls: no step that hears a recognizer result with non-negative word
\* times, and no other step short of a reset, lowers it.
FixedEndTimeMonotone ==
  [][(~SessionStart /\ NonNegativeTimes(heard'.words)) =>
        fixedEndTime' >= fixedEndTime]_vars

\* a call returned after the session advanced fixedEndTime by two locks
FixedEndTimeAdvancedTwice ==
  /\ pc = "idle"
  /\ ret.op = "transcribeIncremental"
  /\ Len(fixedSentences) >= 2
  /\ fixedEndTime >= 6
  /\ NonNegativeTimes(heard.words)

Sorted(ws) == \A i \in 2..Len(ws) : ws[i - 1].start_time <= ws[i].start_time

IncrementalReturned ==
  pc = "idle" /\ ret.op = "transcribeIncremental" /\ ~ret.error /\ ret.calls >= 1

\* the partial lists fixedWords, then the words of the last result moved
\* forward by fixedEndTime
WordsAreFixedThenHeard ==
  /\ Len(last.words) = Len(fixedWords) + Len(heard.words)
  /\ SubSeq(last.words, 1, Len(fixedWords)) = fixedWords
  /\ \A i \in 1..Len(heard.words) :
       last.words[Len(fixedWords) + i] =
         Word(heard.words[i].text, fixedEndTime + heard.words[i].start_time,
              fixedEndTime + heard.words[i].end_time)

\* C13 as stated: the partial of a transcribeIncremental call that invoked
\* the recognizer is not final, its activeText is the text of the last
\* recognizer result, and its words are fixedWords followed by that
\* result's words shifted by fixedEndTime.
IncrementalPartialVerbatim ==
  IncrementalReturned =>
    /\ ~last.isFinal
    /\ last.activeText = heard.text
    /\ WordsAreFixedThenHeard

\* C13, amended: the partial of a transcribeIncremental call that invoked
\* the recognizer is not final, its activeText is the text of the last
\* recognizer result with leading and trailing whitespace removed, and its
\* words are fixedWords followed by that result's words shifted by
\* fixedEndTime.
IncrementalPartialTrimmed ==
  IncrementalReturned =>
    /\ ~last.isFinal
    /\ last.activeText = Trim(heard.text)
    /\ WordsAreFixedThenHeard

\* a call locked words, re-ran the recognizer and returned words of the
\* re-run behind the locked ones
ReturnedAfterRerun ==
  /\ IncrementalReturned
  /\ ret.calls = 2
  /\ fixedEndTime > 0
  /\ Len(heard.words) > 0
  /\ heard.text # Trim(heard.text)

\* a transcribeBatchLatest call has returned
LatestReturned == pc = "idle" /\ ret.op = "transcribeBatchLatest" /\ ~ret.error

\* C14: transcribeBatchLatest returns the last partial the transcribeBatch
\* run it drains has emitted; only when that run emits nothing, which
\* happens for empty audio alone, does it return the empty non-final
\* partial stamped with the audio's duration; for non-empty audio shorter
\* than config.maxWindowSeconds what it returns is final and stamped with the
\* audio's duration.
LatestIsLastEmitted ==
  LatestReturned =>
    /\ emitted >= 1 => latest = last
    /\ emitted = 0 <=> ret.audio = 0
    /\ emitted = 0 =>
         /\ latest.fixedText = <<>> /\ latest.activeText = <<>>
         /\ ~latest.isFinal
         /\ latest.timestamp = Duration(ret.audio)
    /\ (ret.audio > 0 /\ Duration(ret.audio) < config.maxWindowSeconds) =>
         latest.isFinal /\ latest.timestamp = Duration(ret.audio)

\* transcribeBatchLatest returned after draining a run of several partials
LatestAfterSeveral ==
  /\ LatestReturned
  /\ emitted >= 2
  /\ latest.isFinal
  /\ Len(latest.fixedText) > 0

\* segmentWordsIntoWebVttCues has returned
Segmented == step = "segmented"

\* C15: segmentWordsIntoWebVttCues never returns a cue whose text is empty,
\* whatever the words and the options, a single group of words included.
NoEmptyCueText ==
  Segmented => \A i \in 1..Len(cues) : cues[i].text # <<>>

\* C16: every cue returned by segmentWordsIntoWebVttCues ends at least one
\* millisecond after it starts, whatever the times of the words.
CueEndsAfterStart ==
  Segmented => \A i \in 1..Len(cues) : cues[i].end_time >= cues[i].start_time + 1

\* several cues came back, one of them for a word without duration whose
\* times were not usable numbers
ClampedCueAmongSeveral ==
  /\ Segmented
  /\ Len(cues) >= 2
  /\ \E i \in 1..Len(cues) : cues[i].end_time = cues[i].start_time + 1
  /\ \E i \in 1..Len(inputWords) :
       /\ ~inputWords[i].end_time.finite
       /\ Trim(inputWords[i].text) # <<>>

\* C17: no cue returned by segmentWordsIntoWebVttCues has a text that,
\* trimmed and lower-cased, is a single connector word.
NoConnectorOnlyCue ==
  Segmented =>
    \A i \in 1..Len(cues) : toLowerCase(Trim(cues[i].text)) \notin CONNECTOR_WORDS

\* C18: the cues returned by segmentWordsIntoWebVttCues are in
\* (start_time, end_time) order and none starts before the one before it
\* has ended.
CuesOrderedAndDisjoint ==
  Segmented =>
    \A i \in 1..(Len(cues) - 1) :
      /\ ~Before(cues[i + 1], cues[i])
      /\ cues[i].end_time <= cues[i + 1].start_time

\* the cue list handed to the serializer has non-empty, distinct texts and
\* times that are numbers with start >= 0 and end at least 1 ms after it
RoundTripInput ==
  /\ \A i \in 1..Len(input) :
       /\ Trim(input[i].text) # <<>>
       /\ input[i].start_time.finite /\ input[i].end_time.finite
       /\ input[i].start_time.value >= 0
       /\ ToFixed3(input[i].end_time.value) > ToFixed3(input[i].start_time.value)
  /\ \A i, j \in 1..Len(input) : i # j => input[i].text # input[j].text

\* the input cues with their times rounded to the millisecond, in
\* (start_time, end_time) order
RoundedInput ==
  Sort([i \in 1..Len(input) |->
          Cue(IdentifierOf(input[i]), ToFixed3(input[i].start_time.value),
              ToFixed3(input[i].end_time.value), input[i].text)])

\* C19: parseWebVttCues(serializeWebVttCues(cues)) gives back the cues of a
\* list with non-empty distinct texts: the same identifier, start_time,
\* end_time and text, up to millisecond rounding, in (start_time, end_time)
\* order.
RoundTrip ==
  (step = "reparsed" /\ RoundTripInput) => parsed = RoundedInput

\* the blocks of a document that are cues
RECURSIVE CueBlocks(_)
CueBlocks(blocks) ==
  IF blocks = <<>> THEN <<>>
  ELSE (IF Head(blocks).kind = "cue" THEN <<Head(blocks)>> ELSE <<>>)
         \o CueBlocks(Tail(blocks))

Serialized == step \in {"serialized", "reparsed"}

\* the timing lines of a document
TimingLinesOf(doc) == SelectSeq(SplitOn(doc, LF), LAMBDA line : Includes(line, ARROW))

\* s reads HH:MM:SS.mmm
IsTimestampText(s) ==
  /\ Len(s) = 12
  /\ s[3] = ":" /\ s[6] = ":" /\ s[9] = "."
  /\ \A i \in {1, 2, 4, 5, 7, 8, 10, 11, 12} : IsDigit(s[i])

\* the milliseconds that HH:MM:SS.mmm stands for
TimestampValue(s) ==
  ((ParseInt(SubSeq(s, 1, 2)) * 60 + ParseInt(SubSeq(s, 4, 5))) * 60
     + ParseInt(SubSeq(s, 7, 8))) * 1000 + ParseInt(SubSeq(s, 10, 12))

\* C21: serializeWebVttCues writes one timing line for every input cue with
\* non-empty text, HH:MM:SS.mmm --> HH:MM:SS.mmm, whose end timestamp is at
\* least 1 ms later than its start timestamp.
SerializedEndAfterStart ==
  Serialized =>
    LET lines == TimingLinesOf(rawValue)
    IN /\ Len(lines) = Len(SelectSeq(input, LAMBDA cue : Trim(cue.text) # <<>>))
       /\ \A i \in 1..Len(lines) :
            LET from == SubSeq(lines[i], 1, 12)
                to == SubSeq(lines[i], 18, 29)
            IN /\ Len(lines[i]) = 29
               /\ SubSeq(lines[i], 13, 17) = <<SP>> \o ARROW \o <<SP>>
               /\ IsTimestampText(from) /\ IsTimestampText(to)
               /\ TimestampValue(to) >= TimestampValue(from) + 1

\* C22: transcribeIncremental appends to fixedWords only when its first
\* recognizer call answers for a window of at least config.maxWindowSeconds, and
\* then it appends exactly the words of that answer whose end_time is
\* strictly less than the window duration minus config.sentenceBufferSeconds.
LocksOnlyInsideWindow ==
  [][/\ pc = "incremental_second" => fixedWords' = fixedWords
     /\ (pc = "incremental_first" /\ fixedWords' # fixedWords) =>
          LET windowDuration == Duration(window.end - window.start)
              cutoff == windowDuration - config.sentenceBufferSeconds
              appended == SubSeq(fixedWords', Len(fixedWords) + 1, Len(fixedWords'))
          IN /\ windowDuration >= config.maxWindowSeconds
             /\ SubSeq(fixedWords', 1, Len(fixedWords)) = fixedWords
             /\ \A i \in 1..Len(appended) :
                  /\ appended[i].end_time - fixedEndTime < cutoff
                  /\ \E k \in 1..Len(heard'.words) :
                       /\ heard'.words[k].text = appended[i].text
                       /\ heard'.words[k].end_time = appended[i].end_time - fixedEndTime
             /\ Len(appended) =
                  Cardinality({k \in 1..Len(heard'.words) : heard'.words[k].end_time < cutoff})
    ]_vars

\* a call locked some words of the recognizer's answer and left others
LockedPartOfWindow ==
  /\ pc = "incremental_second"
  /\ Len(fixedWords) > Len(pre.words)
  /\ Len(heard.words) > Len(fixedWords) - Len(pre.words)

\* C23: between engine operations fixedEndTime is the absolute end_time of
\* the last word of fixedWords, and 0 when fixedWords is empty.
FixedEndTimeIsLastLockedEnd ==
  pc = "idle" =>
    fixedEndTime = IF fixedWords = <<>> THEN 0 ELSE fixedWords[Len(fixedWords)].end_time

\* the first step of a transcribeProgressive or transcribeBatch run
RunStart ==
  /\ pc = "idle"
  /\ audioBuffer' = audioBuffer
  /\ ret'.op # "reset"
  /\ \/ caller' \in {"progressive_loop", "progressive_final"}
     \/ ret'.op \in {"running", "transcribeBatch", "transcribeBatchLatest"}

\* C24: transcribeBatch and transcribeProgressive begin as they would on a
\* freshly constructed instance, whatever the instance did before: nothing
\* is locked, no partial and no recognizer result is left over, the first
\* window starts at 0, and transcribeProgressive's first
\* transcribeIncremental call takes the shortcut only for a chunk shorter
\* than half a second; and reset() leaves the instance as its constructor
\* does.
RunsStartFresh ==
  [][/\ RunStart =>
          /\ fixedSentences' = <<>> /\ fixedWords' = <<>> /\ fixedEndTime' = 0
          /\ heard' = NoResult
          /\ finals' = IF pc' = "idle" /\ caller' = "progressive_final" THEN 1 ELSE 0
          /\ IF caller' \in {"progressive_loop", "progressive_final"}
               THEN IF 2 * audio' < config.sampleRate
                      THEN /\ lastTranscribedLength' = 0
                           /\ calls' = 0
                           /\ emitted' = 1
                           /\ last'.fixedText = <<>> /\ last'.activeText = <<>>
                           /\ last'.words = <<>>
                      ELSE /\ lastTranscribedLength' = audio'
                           /\ pc' = "incremental_first"
                           /\ calls' = 1
                           /\ emitted' = 0
                           /\ window'.start = 0 /\ window'.end = audio'
                           /\ activeWindowBaseTime' = 0
               ELSE /\ lastTranscribedLength' = 0
                    /\ processedUpTo' = 0
                    /\ emitted' = 0 /\ last' = NoPartial
                    /\ IF audio' > 0
                         THEN /\ pc' = "batch_await"
                              /\ calls' = 1
                              /\ windowStart' = 0 /\ window'.start = 0
                         ELSE pc' = "idle" /\ calls' = 0
     /\ (pc' = "idle" /\ ret'.op = "reset") =>
          /\ fixedSentences' = <<>> /\ fixedWords' = <<>> /\ fixedEndTime' = 0
          /\ lastTranscribedLength' = 0
    ]_vars

\* a run has begun on an instance that held the state of an earlier session
RunStartedOnUsedInstance ==
  /\ reused
  /\ pc \in {"incremental_first", "batch_await"}
  /\ caller \in {"progressive_loop", "latest"}
  /\ calls = 1

\* cues c and d, c first, would merge into a cue within round(1.75 x
\* maxCueChars) characters and 1.5 x hardMaxCueDurationSeconds
MergedWouldFit(c, d) ==
  /\ Len(normalizeCueText(c.text \o <<SP>> \o d.text)) <= RoundPercent(maxCueChars(options), 175)
  /\ 200 * (d.end_time - c.start_time) <= 3 * hardMaxCueDurationSeconds(options)

\* C25: no cue returned by segmentWordsIntoWebVttCues has a dangling text
\* and a neighbour it could have been merged with: the cue before it, or
\* when there is none or that merge would not fit, the cue after it.
NoMergeableDanglingCue ==
  Segmented =>
    \A i \in 1..Len(cues) :
      isDanglingCueText(cues[i].text) =>
        /\ i > 1 => ~MergedWouldFit(cues[i - 1], cues[i])
        /\ i < Len(cues) => ~MergedWouldFit(cues[i], cues[i + 1])

\* the characters of texts, in order, white space left out
Letters(texts) == SelectSeq(Join(texts), LAMBDA c : ~IsSpace(c))

IncrementalFailed == pc = "idle" /\ ret.op = "transcribeIncremental" /\ ret.error

\* C27: after a failed transcribeIncremental call the session state is as
\* before the call, lastTranscribedLength included, so that a call with the
\* same buffer does not take the unchanged-buffer shortcut.
FailedCallCanBeRetried ==
  IncrementalFailed => (lastTranscribedLength # ret.audio /\ Locked = pre)

\* engine calls in flight on the session's handler
InFlightCalls == Len(stt.tickCalls) + Len(stt.finalCalls)

\* C28: during a recording session at most one engine call, of a timer tick or
\* of stopSttRecording, is in flight on the session's handler
OneEngineCallInFlight == InFlightCalls <= 1

\* loads in progress
PendingLoads == {n \in DOMAIN loader.loads : loader.loads[n] = "pending"}

\* caller c calls loadParakeetTranscriber in this step
Calls(c) ==
  /\ loader.callers[c].at \notin {"creator", "joined"}
  /\ loader'.callers[c] # loader.callers[c]

\* caller c gets the outcome of the load it waits on in this step
Resumes(c) ==
  /\ loader.callers[c].at \in {"creator", "joined"}
  /\ loader'.callers[c] # loader.callers[c]

\* C29: at most one load is in progress; once a load has succeeded the shared
\* transcriber stays and every call returns it without loading; a caller
\* waiting on a load that failed gets the error, and a call made after a
\* failed load starts a fresh load
SingleFlightLoad ==
  [][ /\ Cardinality(PendingLoads') <= 1
      /\ loader.sharedTranscriber # 0 =>
           /\ loader'.sharedTranscriber = loader.sharedTranscriber
           /\ loader'.loads = loader.loads
           /\ \A c \in Callers : Calls(c) =>
                loader'.callers[c] = [at |-> "returned", load |-> loader.sharedTranscriber]
      /\ \A c \in Callers :
           Resumes(c) /\ loader.loads[loader.callers[c].load] = "rejected" =>
             loader'.callers[c] = [at |-> "threw", load |-> loader.callers[c].load]
      /\ \A c \in Callers :
           /\ Calls(c)
           /\ loader.loads # <<>>
           /\ \A n \in DOMAIN loader.loads : loader.loads[n] = "rejected"
           => /\ loader'.loads = Append(loader.loads, "pending")
              /\ loader'.callers[c] = [at |-> "creator", load |-> Len(loader'.loads)]
    ]_vars

\* after a failed load whose waiters got the error, a second load succeeded and
\* a later call returned its transcriber
RetriedAfterFailedLoad ==
  /\ Len(loader.loads) >= 2
  /\ loader.loads[1] = "rejected" /\ loader.loads[2] = "resolved"
  /\ \E c \in Callers : loader.callers[c] = [at |-> "threw", load |-> 1]
  /\ \E c \in Callers : loader.callers[c] = [at |-> "returned", load |-> 2]
  /\ loader.sharedTranscriber = 2

\* the ids of the annotations stored for the canvas
StoredIds == {media.stored[i].id : i \in DOMAIN media.stored}

\* C30: the store's selected id is null or the id of an annotation stored for
\* the canvas, and its count is the number of annotations stored
StoreAgreesWithAnnotations ==
  /\ \/ media.state.selectedLocalScholiumId = NoSelection
     \/ media.state.selectedLocalScholiumId.id \in StoredIds
  /\ media.state.localAnnotationCount = Len(media.stored)

====
